---------------------------- MODULE Spec2Model ----------------------------
(***************************************************************************)
(* Verification model of the Clarity contract verification action:         *)
(*   - esbmc/runner      : runESBMC, parseESBMCOutput, parseFailingFunctions*)
(*   - parser/function-detector : parseClarityFunctions,                    *)
(*                         compareAndIdentifyChanges, detectChangedFunctions*)
(*                         and getModifiedFiles                             *)
(*   - index             : run (the orchestrator), groupFunctionsByFile     *)
(*   - ast/generator     : generateASTs                                     *)
(*   - sarif/converter   : generateSARIF, generateSummary                   *)
(*   - github/comment    : uploadSARIF, postPRComment, setWorkflowStatus    *)
(*                                                                         *)
(* Text is modelled as a sequence of lines, a line as a sequence of lexical *)
(* tokens.  A token stands for a fixed piece of text (its own spelling);    *)
(* "SP" stands for a run of white space.  String operations of the source   *)
(* (trim, includes, startsWith, regular expression search, split) are       *)
(* modelled by what they do on such token sequences.                        *)
(***************************************************************************)
EXTENDS Integers, Sequences, FiniteSets, TLC

VARIABLES
    \* ---- one call of runESBMC (esbmc/runner) ----
    opc,          \* position of the call: "idle" | "awaiting" | "done"
    ojob,         \* the call's arguments [file, fn]
    ooutcome,     \* what the awaited runInContainer call did
    oresult,      \* how runESBMC completed: the ESBMCResult returned, or a throw
    \* ---- one file of detectChangedFunctions (parser/function-detector) ----
    dpc,          \* "fetch" | "analyze" | "done"
    dbase,        \* base revision content of the file (sequence of lines)
    dhead,        \* head revision content of the file
    dchanges,     \* the ChangedFunction records pushed for the file
    \* ---- run(), the orchestrator (index) ----
    rpc,          \* position in run()
    rchanged,     \* changedFunctions as detected: sequence of [file, name]
    rgroups,      \* changedFunctionsByFile: sequence of [file, functions]
    rast,         \* astMap: the set of files that have an AST artifact
    rfi,          \* index of the file of the current loop (AST loop, job loop)
    rfj,          \* index of the function of the current job within its file
    rinflight,    \* external calls awaited right now: set of [kind, file, fn]
    rresults,     \* esbmcResults, the results accumulator
    rconfig,      \* the action's inputs and context: [failOnIssue, inPR]
    routputs,     \* outputs set with core.setOutput: [sarif_report, verification_status]
    rfailed,      \* core.setFailed was called
    rlog,         \* history: the starts and ends of the awaited external calls
    \* ---- the report generator (sarif/converter) on a list of results ----
    spc,          \* "input" | "done"
    sresults,     \* esbmcResults, the argument
    sreport,      \* value of generateSARIF(esbmcResults)
    ssummary,     \* value of generateSummary(esbmcResults): sequence of lines
    \* ---- job planning: groupFunctionsByFile and the job loop of run() ----
    ppc,          \* "input" | "done"
    pchanged,     \* changedFunctions: sequence of ChangedFunction
    past,         \* astMap: the set of files that have an AST artifact
    pjobs,        \* the runESBMC calls of the loop, in order: [file, fn]
    \* ---- successive calls of parseClarityFunctions ----
    qpc,          \* "input" | "calling"
    qcontent,     \* the content under observation
    qcalls,       \* history: the calls made, in order: [content, file, value]
    \* ---- detection and job planning on revisions of the sample contract ----
    cpc,          \* "edit" | "plan" | "done"
    cedits,       \* number of lines the head revision replaces in the base
    cbase,        \* base revision content of the file (sequence of lines)
    chead,        \* head revision content of the file
    cbaseFunctions, \* parseClarityFunctions(baseContent, file)
    cheadFunctions, \* parseClarityFunctions(headContent, file)
    cchanges,     \* changedFunctions as detectChangedFunctions returns it
    cjobs,        \* the runESBMC calls of the job loop, in order: [file, fn]
    \* ---- parseFailingFunctions on a checker output ----
    fpc,          \* "input" | "done"
    ftext,        \* clarOutput, the argument (sequence of lines)
    ffailures,    \* the FailureDetails records returned
    \* ---- getModifiedFiles and the start of run() ----
    lpc,          \* "refs" | "diff" | "returned" | "detected"
    lconfig,      \* the inputs: [contractsDir, excludedContracts]
    lwarned,      \* the warning about a missing Git reference was logged
    loutput,      \* output: the lines the stdout listener has collected
    lexitCode,    \* exitCode of the last diff attempt
    lattempts,    \* history: the diff attempts: [args, exitCode, output, threw]
    lfiles,       \* the array getModifiedFiles returned
    \* ---- run() from the report on: report, upload, comment, status ----
    upc,          \* "report" | "upload" | "comment" | "status" | "done"
    uresults,     \* esbmcResults, as the job loop left it
    uconfig,      \* inputs and context: [failOnIssue, inPR, hasWorkspace, hasToken]
    uoutputs,     \* outputs set with core.setOutput
    ufailed,      \* core.setFailed was called
    ulog          \* history: the steps awaited and the value each resolved with

outVars == <<opc, ojob, ooutcome, oresult>>
detVars == <<dpc, dbase, dhead, dchanges>>
runVars == <<rpc, rchanged, rgroups, rast, rfi, rfj, rinflight, rresults, rconfig, routputs, rfailed, rlog>>
sarifVars == <<spc, sresults, sreport, ssummary>>
planVars == <<ppc, pchanged, past, pjobs>>
parseVars == <<qpc, qcontent, qcalls>>
contractVars == <<cpc, cedits, cbase, chead, cbaseFunctions, cheadFunctions, cchanges, cjobs>>
failVars == <<fpc, ftext, ffailures>>
listVars == <<lpc, lconfig, lwarned, loutput, lexitCode, lattempts, lfiles>>
publishVars == <<upc, uresults, uconfig, uoutputs, ufailed, ulog>>
fnVars == <<sarifVars, planVars, parseVars, contractVars, failVars, listVars, publishVars>>
vars == <<outVars, detVars, runVars, fnVars>>

(***************************************************************************)
(* Bounds of the model.                                                    *)
(***************************************************************************)
MaxOutLines == 5        \* lines of a checker output text
MaxContentLines == 2    \* lines of a contract file revision
MaxChanged == 3         \* changed-function records of one run

(***************************************************************************)
(* String helpers on token sequences.                                      *)
(***************************************************************************)
IsWhitespace(tok) == tok = "SP"

RECURSIVE TrimStart(_)
TrimStart(s) ==
    IF s # <<>> /\ IsWhitespace(Head(s)) THEN TrimStart(Tail(s)) ELSE s

RECURSIVE TrimEnd(_)
TrimEnd(s) ==
    IF s # <<>> /\ IsWhitespace(s[Len(s)])
    THEN TrimEnd(SubSeq(s, 1, Len(s) - 1)) ELSE s

\* String.prototype.trim
Trim(s) == TrimEnd(TrimStart(s))

\* line.startsWith(prefix), prefix a single token
StartsWith(s, tok) == s # <<>> /\ s[1] = tok

\* text.includes(marker) for a marker that holds no line break: the marker
\* occurs inside one of the lines
Includes(text, marker) ==
    \E i \in 1..Len(text) : \E j \in 1..Len(text[i]) : text[i][j] = marker

\* a ?? b  and  a || b  on an optional value held as a sequence of length <= 1
Nullish(opt, dflt) == IF opt = <<>> THEN dflt ELSE opt[1]
\* s ?? dflt  on a string: the empty string is kept
OrElseMutKeepsEmpty(s, dflt) == s
\* s || dflt  on a string: the empty string is falsy
OrElse(s, dflt) == IF s = <<>> THEN dflt ELSE s


(***************************************************************************)
(* esbmc/runner: the checker output and its parser.                        *)
(*                                                                         *)
(* Tokens of an output line:                                               *)
(*   "[Counterexample]", "Violated property:", "VERIFICATION SUCCESSFUL",  *)
(*   "VERIFICATION FAILED" are themselves; "State@17:deposit" stands for    *)
(*   "State 3 file sample.clar line 17 function deposit thread 0" and       *)
(*   "State@5:withdraw" for the same line with line 5, function withdraw;   *)
(*   any other token is plain text.                                        *)
(***************************************************************************)
StateTokens == {"State@17:deposit", "State@5:withdraw"}

\* capture group 1 of stateLineRegex, through parseInt(match[1], 10)
StateLineNumber(tok) == IF tok = "State@17:deposit" THEN 17 ELSE 5
\* capture group 2 of stateLineRegex
StateFnName(tok) == IF tok = "State@17:deposit" THEN "deposit" ELSE "withdraw"

\* line.match(stateLineRegex): the regular expression is not anchored, so it
\* finds the leftmost piece of the line that has the State shape.  The value
\* is <<>> for no match and <<token>> for a match.
RECURSIVE StateLineMatch(_)
StateLineMatch(line) ==
    IF line = <<>> THEN <<>>
    ELSE IF Head(line) \in StateTokens THEN <<Head(line)>>
    ELSE StateLineMatch(Tail(line))

isFillerLine(line) == Trim(line) = <<>>

\* (lines[i] || "") without the trim
LineAtMutNoTrim(lines, i) == IF i \in 1..Len(lines) THEN lines[i] ELSE <<>>

\* (lines[i] || "").trim(), with i counted from 1
LineAt(lines, i) == IF i \in 1..Len(lines) THEN Trim(lines[i]) ELSE <<>>

\* the search without the while loop: the line after the trigger is taken
\* as it is
SkipFillerMutNoSkip(lines, i) == i

\* "i++; next = (lines[i] || "").trim() while (i < lines.length &&
\* isFillerLine(next))": the index at which the loop stops
RECURSIVE SkipFiller(_, _)
SkipFiller(lines, i) ==
    IF i <= Len(lines) /\ isFillerLine(LineAt(lines, i))
    THEN SkipFiller(lines, i + 1) ELSE i

UnknownLineNumber == -1

\* the FailureDetails pushed at a 'Violated property:' trigger
FailureRecord(currentFnName, currentLineNumber, title, failingCode) ==
    [functionName |-> Nullish(currentFnName, "unknown_function"),
     lineNumber   |-> Nullish(currentLineNumber, UnknownLineNumber),
     title        |-> title,
     failingCode  |-> failingCode]

\* The for loop of parseFailingFunctions from index i on, with the loop's
\* variables as arguments; the value is the final `results`.
RECURSIVE ParseLoop(_, _, _, _, _, _)
ParseLoop(lines, i, inCounterexampleBlock, currentFnName, currentLineNumber, results) ==
    IF i > Len(lines) THEN results
    ELSE
      LET line == Trim(lines[i])
          match == StateLineMatch(line)
      IN
      IF line = <<"[Counterexample]">>
      THEN ParseLoop(lines, i + 1, TRUE, currentFnName, currentLineNumber,
                     results)
      ELSE IF ~inCounterexampleBlock
      THEN ParseLoop(lines, i + 1, FALSE, currentFnName, currentLineNumber,
                     results)
      ELSE IF match # <<>>
      THEN ParseLoop(lines, i + 1, TRUE, <<StateFnName(match[1])>>,
                     <<StateLineNumber(match[1])>>, results)
      ELSE IF StartsWith(line, "Violated property:")
      THEN
        LET t == SkipFiller(lines, i + 1)
            title == OrElse(LineAt(lines, t), <<"unknown-property">>)
            c == SkipFiller(lines, t + 1)
            failingCode == OrElse(LineAt(lines, c), <<"unknown-failing-code">>)
        IN ParseLoop(lines, c + 1, FALSE, currentFnName, currentLineNumber,
                     Append(results,
                            FailureRecord(currentFnName, currentLineNumber,
                                          title, failingCode)))
      ELSE ParseLoop(lines, i + 1, TRUE, currentFnName, currentLineNumber,
                     results)

\* the loop without "inCounterexampleBlock = false" after the push
RECURSIVE ParseLoopMutStaysInBlock(_, _, _, _, _, _)
ParseLoopMutStaysInBlock(lines, i, inCounterexampleBlock, currentFnName, currentLineNumber, results) ==
    IF i > Len(lines) THEN results
    ELSE
      LET line == Trim(lines[i])
          match == StateLineMatch(line)
      IN
      IF line = <<"[Counterexample]">>
      THEN ParseLoopMutStaysInBlock(lines, i + 1, TRUE, currentFnName, currentLineNumber,
                     results)
      ELSE IF ~inCounterexampleBlock
      THEN ParseLoopMutStaysInBlock(lines, i + 1, FALSE, currentFnName, currentLineNumber,
                     results)
      ELSE IF match # <<>>
      THEN ParseLoopMutStaysInBlock(lines, i + 1, TRUE, <<StateFnName(match[1])>>,
                     <<StateLineNumber(match[1])>>, results)
      ELSE IF StartsWith(line, "Violated property:")
      THEN
        LET t == SkipFiller(lines, i + 1)
            title == OrElse(LineAt(lines, t), <<"unknown-property">>)
            c == SkipFiller(lines, t + 1)
            failingCode == OrElse(LineAt(lines, c), <<"unknown-failing-code">>)
        IN ParseLoopMutStaysInBlock(lines, c + 1, TRUE, currentFnName, currentLineNumber,
                     Append(results,
                            FailureRecord(currentFnName, currentLineNumber,
                                          title, failingCode)))
      ELSE ParseLoopMutStaysInBlock(lines, i + 1, TRUE, currentFnName, currentLineNumber,
                     results)

parseFailingFunctionsMutStaysInBlock(clarOutput) ==
    ParseLoopMutStaysInBlock(clarOutput, 1, FALSE, <<>>, <<>>, <<>>)

\* the loop with "currentFnName ??= match[2]": the first State line of the
\* text is kept
RECURSIVE ParseLoopMutFirstState(_, _, _, _, _, _)
ParseLoopMutFirstState(lines, i, inCounterexampleBlock, currentFnName, currentLineNumber, results) ==
    IF i > Len(lines) THEN results
    ELSE
      LET line == Trim(lines[i])
          match == StateLineMatch(line)
      IN
      IF line = <<"[Counterexample]">>
      THEN ParseLoopMutFirstState(lines, i + 1, TRUE, currentFnName, currentLineNumber,
                     results)
      ELSE IF ~inCounterexampleBlock
      THEN ParseLoopMutFirstState(lines, i + 1, FALSE, currentFnName, currentLineNumber,
                     results)
      ELSE IF match # <<>>
      THEN ParseLoopMutFirstState(lines, i + 1, TRUE,
                     OrElse(currentFnName, <<StateFnName(match[1])>>),
                     OrElse(currentLineNumber, <<StateLineNumber(match[1])>>),
                     results)
      ELSE IF StartsWith(line, "Violated property:")
      THEN
        LET t == SkipFiller(lines, i + 1)
            title == OrElse(LineAt(lines, t), <<"unknown-property">>)
            c == SkipFiller(lines, t + 1)
            failingCode == OrElse(LineAt(lines, c), <<"unknown-failing-code">>)
        IN ParseLoopMutFirstState(lines, c + 1, FALSE, currentFnName, currentLineNumber,
                     Append(results,
                            FailureRecord(currentFnName, currentLineNumber,
                                          title, failingCode)))
      ELSE ParseLoopMutFirstState(lines, i + 1, TRUE, currentFnName, currentLineNumber,
                     results)

parseFailingFunctionsMutFirstState(clarOutput) ==
    ParseLoopMutFirstState(clarOutput, 1, FALSE, <<>>, <<>>, <<>>)

\* the State test made outside "if (inCounterexampleBlock)": a State line
\* sets the annotation wherever it stands
RECURSIVE ParseLoopMutStateAnywhere(_, _, _, _, _, _)
ParseLoopMutStateAnywhere(lines, i, inCounterexampleBlock, currentFnName, currentLineNumber, results) ==
    IF i > Len(lines) THEN results
    ELSE
      LET line == Trim(lines[i])
          match == StateLineMatch(line)
      IN
      IF line = <<"[Counterexample]">>
      THEN ParseLoopMutStateAnywhere(lines, i + 1, TRUE, currentFnName, currentLineNumber,
                     results)
      ELSE IF ~inCounterexampleBlock
      THEN ParseLoopMutStateAnywhere(lines, i + 1, FALSE,
                     IF match # <<>> THEN <<StateFnName(match[1])>>
                     ELSE currentFnName,
                     IF match # <<>> THEN <<StateLineNumber(match[1])>>
                     ELSE currentLineNumber,
                     results)
      ELSE IF match # <<>>
      THEN ParseLoopMutStateAnywhere(lines, i + 1, TRUE, <<StateFnName(match[1])>>,
                     <<StateLineNumber(match[1])>>, results)
      ELSE IF StartsWith(line, "Violated property:")
      THEN
        LET t == SkipFiller(lines, i + 1)
            title == OrElse(LineAt(lines, t), <<"unknown-property">>)
            c == SkipFiller(lines, t + 1)
            failingCode == OrElse(LineAt(lines, c), <<"unknown-failing-code">>)
        IN ParseLoopMutStateAnywhere(lines, c + 1, FALSE, currentFnName, currentLineNumber,
                     Append(results,
                            FailureRecord(currentFnName, currentLineNumber,
                                          title, failingCode)))
      ELSE ParseLoopMutStateAnywhere(lines, i + 1, TRUE, currentFnName, currentLineNumber,
                     results)

parseFailingFunctionsMutStateAnywhere(clarOutput) ==
    ParseLoopMutStateAnywhere(clarOutput, 1, FALSE, <<>>, <<>>, <<>>)

parseFailingFunctions(clarOutput) ==
    ParseLoop(clarOutput, 1, FALSE, <<>>, <<>>, <<>>)

\* the synthetic failure of an output that holds neither marker
UnknownResultFailure(functionName) ==
    [functionName |-> functionName,
     lineNumber   |-> UnknownLineNumber,
     title        |-> <<"unknown-result">>,
     failingCode  |-> <<"ESBMC did not produce a clear verification result">>]

parseESBMCMutSwapped(output, clarityFile, functionName) ==
    IF Includes(output, "VERIFICATION FAILED")
    THEN [verified |-> FALSE, failures |-> parseFailingFunctions(output),
          rawOutput |-> output, clarityFile |-> clarityFile,
          functionName |-> functionName]
    ELSE IF Includes(output, "VERIFICATION SUCCESSFUL")
    THEN [verified |-> TRUE, failures |-> <<>>, rawOutput |-> output,
          clarityFile |-> clarityFile, functionName |-> functionName]
    ELSE [verified |-> FALSE,
          failures |-> <<UnknownResultFailure(functionName)>>,
          rawOutput |-> output, clarityFile |-> clarityFile,
          functionName |-> functionName]

parseESBMCMutUnknownWhenEmpty(output, clarityFile, functionName) ==
    IF Includes(output, "VERIFICATION SUCCESSFUL")
    THEN [verified |-> TRUE, failures |-> <<>>, rawOutput |-> output,
          clarityFile |-> clarityFile, functionName |-> functionName]
    ELSE IF Includes(output, "VERIFICATION FAILED")
            /\ parseFailingFunctions(output) # <<>>
    THEN [verified |-> FALSE, failures |-> parseFailingFunctions(output),
          rawOutput |-> output, clarityFile |-> clarityFile,
          functionName |-> functionName]
    ELSE [verified |-> FALSE,
          failures |-> <<UnknownResultFailure(functionName)>>,
          rawOutput |-> output, clarityFile |-> clarityFile,
          functionName |-> functionName]

parseESBMCMutNeitherParses(output, clarityFile, functionName) ==
    IF Includes(output, "VERIFICATION SUCCESSFUL")
    THEN [verified |-> TRUE, failures |-> <<>>, rawOutput |-> output,
          clarityFile |-> clarityFile, functionName |-> functionName]
    ELSE IF Includes(output, "VERIFICATION FAILED")
    THEN [verified |-> FALSE, failures |-> parseFailingFunctions(output),
          rawOutput |-> output, clarityFile |-> clarityFile,
          functionName |-> functionName]
    ELSE [verified |-> FALSE,
          failures |-> <<UnknownResultFailure(functionName)>>
                         \o parseFailingFunctions(output),
          rawOutput |-> output, clarityFile |-> clarityFile,
          functionName |-> functionName]

\* the success branch with the records of the text kept
parseESBMCMutRecordsOnSuccess(output, clarityFile, functionName) ==
    IF Includes(output, "VERIFICATION SUCCESSFUL")
    THEN [verified |-> TRUE, failures |-> parseFailingFunctions(output),
          rawOutput |-> output, clarityFile |-> clarityFile,
          functionName |-> functionName]
    ELSE IF Includes(output, "VERIFICATION FAILED")
    THEN [verified |-> FALSE, failures |-> parseFailingFunctions(output),
          rawOutput |-> output, clarityFile |-> clarityFile,
          functionName |-> functionName]
    ELSE [verified |-> FALSE,
          failures |-> <<UnknownResultFailure(functionName)>>,
          rawOutput |-> output, clarityFile |-> clarityFile,
          functionName |-> functionName]

parseESBMCOutput(output, clarityFile, functionName) ==
    IF Includes(output, "VERIFICATION SUCCESSFUL")
    THEN [verified |-> TRUE, failures |-> <<>>, rawOutput |-> output,
          clarityFile |-> clarityFile, functionName |-> functionName]
    ELSE IF Includes(output, "VERIFICATION FAILED")
    THEN [verified |-> FALSE, failures |-> parseFailingFunctions(output),
          rawOutput |-> output, clarityFile |-> clarityFile,
          functionName |-> functionName]
    ELSE [verified |-> FALSE,
          failures |-> <<UnknownResultFailure(functionName)>>,
          rawOutput |-> output, clarityFile |-> clarityFile,
          functionName |-> functionName]

\* How a call completes: it returns a value or throws an error (a text).
Returned(v) == [threw |-> FALSE, value |-> v, error |-> <<>>]
Threw(e) == [threw |-> TRUE, value |-> <<>>, error |-> e]

\* utils.runInContainer: exec() rejects on a non-zero exit code; the rejection
\* is caught and thrown again as `Failed to run command in container: ${error}`.
\* Otherwise the value is what the container wrote to its standard output.
runInContainer(execOutcome) ==
    IF execOutcome.threw
    THEN Threw(<<"Error: Failed to run command in container: ">> \o execOutcome.error)
    ELSE Returned(execOutcome.value)

\* the catch block of runESBMC
ExecutionErrorResult(clarityFile, functionName, error) ==
    [verified |-> FALSE,
     failures |-> << [functionName |-> functionName,
                      lineNumber   |-> UnknownLineNumber,
                      title        |-> <<"execution-error">>,
                      failingCode  |-> <<"ESBMC execution failed: ">> \o error] >>,
     rawOutput |-> << <<"Error: ">> \o error >>,
     clarityFile |-> clarityFile,
     functionName |-> functionName]

runESBMCMutRethrow(clarityFile, functionName, outcome) ==
    IF outcome.threw
    THEN Threw(outcome.error)
    ELSE Returned(parseESBMCOutput(outcome.value, clarityFile, functionName))

\* runESBMC, given what the awaited runInContainer call did: the try block
\* returns the parsed output, the catch block the execution-error result
runESBMC(clarityFile, functionName, outcome) ==
    IF outcome.threw
    THEN Returned(ExecutionErrorResult(clarityFile, functionName, outcome.error))
    ELSE Returned(parseESBMCOutput(outcome.value, clarityFile, functionName))

(***************************************************************************)
(* parser/function-detector: function boundaries and the comparator.       *)
(*                                                                         *)
(* Tokens of a contract line: "(" and ")" are the parentheses; "SP" is a    *)
(* run of blanks; "define-public", "define-private", "define-read-only"     *)
(* are the keywords; any other token is text without parentheses or blanks. *)
(* A file content is the sequence of its lines, content.split("\n"); the    *)
(* empty string is the single empty line.                                  *)
(***************************************************************************)
EmptyString == << <<>> >>

DefineKeywords == {"define-public", "define-private", "define-read-only"}

\* capture group 1 of functionRegex
KindOf(keyword) ==
    CASE keyword = "define-public" -> "public"
      [] keyword = "define-private" -> "private"
      [] OTHER -> "read-only"

\* functionRegex = /\(define-(public|private|read-only)\s+\(([^)]+)/ matches
\* at token k of the line
HeaderAt(line, k) ==
    /\ k + 4 <= Len(line)
    /\ line[k] = "("
    /\ line[k + 1] \in DefineKeywords
    /\ line[k + 2] = "SP"
    /\ line[k + 3] = "("
    /\ line[k + 4] # ")"

\* line.match(functionRegex): <<>> or <<match.index>>, the leftmost match
HeaderMatch(line) ==
    LET ks == {k \in 1..Len(line) : HeaderAt(line, k)}
    IN IF ks = {} THEN <<>> ELSE <<CHOOSE k \in ks : \A m \in ks : k <= m>>

\* the longest run of tokens other than ")" from token k on: [^)]+
RECURSIVE UpToCloseParen(_, _)
UpToCloseParen(line, k) ==
    IF k > Len(line) \/ line[k] = ")" THEN <<>>
    ELSE <<line[k]>> \o UpToCloseParen(line, k + 1)

\* s.split(" ")[0]
RECURSIVE FirstWord(_)
FirstWord(s) ==
    IF s = <<>> \/ Head(s) = "SP" THEN <<>>
    ELSE <<Head(s)>> \o FirstWord(Tail(s))

\* match[2].trim().split(" ")[0] for the match at token k
HeaderName(line, k) == FirstWord(Trim(UpToCloseParen(line, k + 4)))

\* "for (j = from; j < line.length; j++) { if '(' openParens++; if ')'
\* openParens-- }": openParens after the loop
RECURSIVE CountParens(_, _, _)
CountParens(line, from, openParens) ==
    IF from > Len(line) THEN openParens
    ELSE CountParens(line, from + 1,
                     CASE line[from] = "(" -> openParens + 1
                       [] line[from] = ")" -> openParens - 1
                       [] OTHER -> openParens)

\* startLine: i and endLine: i, the loop index, in the place of i + 1
ClarityFunctionMutZeroBased(name, type, startLine, endLine, content, file) ==
    [name |-> name, type |-> type, startLine |-> startLine - 1,
     endLine |-> endLine - 1, content |-> content, file |-> file]

ClarityFunction(name, type, startLine, endLine, content, file) ==
    [name |-> name, type |-> type, startLine |-> startLine,
     endLine |-> endLine, content |-> content, file |-> file]

\* The for loop of parseClarityFunctions from line i on.  cur holds the
\* fields of currentFunction set at the header (name, type, startLine);
\* functionContent is the sequence of the lines joined by "\n" so far.
RECURSIVE ParseFunctionsLoop(_, _, _, _, _, _, _, _)
ParseFunctionsLoop(lines, filePath, i, inFunction, cur, openParens, functionContent, functions) ==
    IF i > Len(lines) THEN functions
    ELSE
      LET line == lines[i]
          match == HeaderMatch(line)
      IN
      IF ~inFunction
      THEN
        IF match = <<>>
        THEN ParseFunctionsLoop(lines, filePath, i + 1, FALSE, cur,
                                openParens, functionContent, functions)
        ELSE
          LET started == [name |-> HeaderName(line, match[1]),
                          type |-> KindOf(line[match[1] + 1]),
                          startLine |-> i]
              parens == CountParens(line, match[1] + 1, 1)
          IN
          IF parens = 0
          THEN ParseFunctionsLoop(lines, filePath, i + 1, FALSE, started,
                                  parens, <<line>>,
                                  Append(functions,
                                         ClarityFunction(started.name,
                                             started.type, started.startLine,
                                             i, <<line>>, filePath)))
          ELSE ParseFunctionsLoop(lines, filePath, i + 1, TRUE, started,
                                  parens, <<line>>, functions)
      ELSE
        LET parens == CountParens(line, 1, openParens)
            text == Append(functionContent, line)
        IN
        IF parens = 0
        THEN ParseFunctionsLoop(lines, filePath, i + 1, FALSE, cur, parens,
                                text,
                                Append(functions,
                                       ClarityFunction(cur.name, cur.type,
                                           cur.startLine, i, text, filePath)))
        ELSE ParseFunctionsLoop(lines, filePath, i + 1, TRUE, cur, parens,
                                text, functions)

NoFunction == [name |-> <<>>, type |-> "", startLine |-> 0]

\* `functions` kept at module level and not emptied: a call starts from the
\* array the call before it left
parseClarityFunctionsMutSharedArray(content, filePath) ==
    ParseFunctionsLoop(content, filePath, 1, FALSE, NoFunction, 0, <<>>,
                       IF qcalls = <<>> THEN <<>>
                       ELSE qcalls[Len(qcalls)].value)

\* the header test made on every line, inside an open function too: a header
\* line met there abandons the open function and starts another
RECURSIVE ParseFunctionsLoopMutNested(_, _, _, _, _, _, _, _)
ParseFunctionsLoopMutNested(lines, filePath, i, inFunction, cur, openParens, functionContent, functions) ==
    IF i > Len(lines) THEN functions
    ELSE
      LET line == lines[i]
          match == HeaderMatch(line)
      IN
      IF ~inFunction \/ match # <<>>
      THEN
        IF match = <<>>
        THEN ParseFunctionsLoopMutNested(lines, filePath, i + 1, FALSE, cur,
                                openParens, functionContent, functions)
        ELSE
          LET started == [name |-> HeaderName(line, match[1]),
                          type |-> KindOf(line[match[1] + 1]),
                          startLine |-> i]
              parens == CountParens(line, match[1] + 1, 1)
          IN
          IF parens = 0
          THEN ParseFunctionsLoopMutNested(lines, filePath, i + 1, FALSE, started,
                                  parens, <<line>>,
                                  Append(functions,
                                         ClarityFunction(started.name,
                                             started.type, started.startLine,
                                             i, <<line>>, filePath)))
          ELSE ParseFunctionsLoopMutNested(lines, filePath, i + 1, TRUE, started,
                                  parens, <<line>>, functions)
      ELSE
        LET parens == CountParens(line, 1, openParens)
            text == Append(functionContent, line)
        IN
        IF parens = 0
        THEN ParseFunctionsLoopMutNested(lines, filePath, i + 1, FALSE, cur, parens,
                                text,
                                Append(functions,
                                       ClarityFunction(cur.name, cur.type,
                                           cur.startLine, i, text, filePath)))
        ELSE ParseFunctionsLoopMutNested(lines, filePath, i + 1, TRUE, cur, parens,
                                text, functions)

parseClarityFunctionsMutNested(content, filePath) ==
    ParseFunctionsLoopMutNested(content, filePath, 1, FALSE, NoFunction, 0, <<>>, <<>>)

\* the count on the header line started at match.index: the parenthesis of
\* the define is counted on top of the 1 it is credited with
RECURSIVE ParseFunctionsLoopMutCountsDefineParen(_, _, _, _, _, _, _, _)
ParseFunctionsLoopMutCountsDefineParen(lines, filePath, i, inFunction, cur, openParens, functionContent, functions) ==
    IF i > Len(lines) THEN functions
    ELSE
      LET line == lines[i]
          match == HeaderMatch(line)
      IN
      IF ~inFunction
      THEN
        IF match = <<>>
        THEN ParseFunctionsLoopMutCountsDefineParen(lines, filePath, i + 1, FALSE, cur,
                                openParens, functionContent, functions)
        ELSE
          LET started == [name |-> HeaderName(line, match[1]),
                          type |-> KindOf(line[match[1] + 1]),
                          startLine |-> i]
              parens == CountParens(line, match[1], 1)
          IN
          IF parens = 0
          THEN ParseFunctionsLoopMutCountsDefineParen(lines, filePath, i + 1, FALSE, started,
                                  parens, <<line>>,
                                  Append(functions,
                                         ClarityFunction(started.name,
                                             started.type, started.startLine,
                                             i, <<line>>, filePath)))
          ELSE ParseFunctionsLoopMutCountsDefineParen(lines, filePath, i + 1, TRUE, started,
                                  parens, <<line>>, functions)
      ELSE
        LET parens == CountParens(line, 1, openParens)
            text == Append(functionContent, line)
        IN
        IF parens = 0
        THEN ParseFunctionsLoopMutCountsDefineParen(lines, filePath, i + 1, FALSE, cur, parens,
                                text,
                                Append(functions,
                                       ClarityFunction(cur.name, cur.type,
                                           cur.startLine, i, text, filePath)))
        ELSE ParseFunctionsLoopMutCountsDefineParen(lines, filePath, i + 1, TRUE, cur, parens,
                                text, functions)

parseClarityFunctionsMutCountsDefineParen(content, filePath) ==
    ParseFunctionsLoopMutCountsDefineParen(content, filePath, 1, FALSE, NoFunction, 0, <<>>, <<>>)

\* a push after the loop for the function the end of the input leaves open
RECURSIVE ParseFunctionsLoopMutFlushOpen(_, _, _, _, _, _, _, _)
ParseFunctionsLoopMutFlushOpen(lines, filePath, i, inFunction, cur, openParens, functionContent, functions) ==
    IF i > Len(lines)
    THEN IF inFunction
         THEN Append(functions,
                     ClarityFunction(cur.name, cur.type, cur.startLine,
                                     Len(lines), functionContent, filePath))
         ELSE functions
    ELSE
      LET line == lines[i]
          match == HeaderMatch(line)
      IN
      IF ~inFunction
      THEN
        IF match = <<>>
        THEN ParseFunctionsLoopMutFlushOpen(lines, filePath, i + 1, FALSE, cur,
                                openParens, functionContent, functions)
        ELSE
          LET started == [name |-> HeaderName(line, match[1]),
                          type |-> KindOf(line[match[1] + 1]),
                          startLine |-> i]
              parens == CountParens(line, match[1] + 1, 1)
          IN
          IF parens = 0
          THEN ParseFunctionsLoopMutFlushOpen(lines, filePath, i + 1, FALSE, started,
                                  parens, <<line>>,
                                  Append(functions,
                                         ClarityFunction(started.name,
                                             started.type, started.startLine,
                                             i, <<line>>, filePath)))
          ELSE ParseFunctionsLoopMutFlushOpen(lines, filePath, i + 1, TRUE, started,
                                  parens, <<line>>, functions)
      ELSE
        LET parens == CountParens(line, 1, openParens)
            text == Append(functionContent, line)
        IN
        IF parens = 0
        THEN ParseFunctionsLoopMutFlushOpen(lines, filePath, i + 1, FALSE, cur, parens,
                                text,
                                Append(functions,
                                       ClarityFunction(cur.name, cur.type,
                                           cur.startLine, i, text, filePath)))
        ELSE ParseFunctionsLoopMutFlushOpen(lines, filePath, i + 1, TRUE, cur, parens,
                                text, functions)

parseClarityFunctionsMutFlushOpen(content, filePath) ==
    ParseFunctionsLoopMutFlushOpen(content, filePath, 1, FALSE, NoFunction, 0, <<>>, <<>>)

\* parseClarityFunctions: every variable of the loop is a local set at the
\* start of the call; functionRegex has no g flag, so match() keeps no
\* position between two uses
parseClarityFunctions(content, filePath) ==
    ParseFunctionsLoop(content, filePath, 1, FALSE, NoFunction, 0, <<>>, <<>>)

\* functions.find((f) => f.name === name): <<>> for undefined, else <<f>>
FindByName(functions, name) ==
    LET is == {i \in 1..Len(functions) : functions[i].name = name}
    IN IF is = {} THEN <<>>
       ELSE <<functions[CHOOSE i \in is : \A m \in is : i <= m]>>

\* { ...func, changeType }
WithChangeType(func, changeType) ==
    [name |-> func.name, type |-> func.type, startLine |-> func.startLine,
     endLine |-> func.endLine, content |-> func.content, file |-> func.file,
     changeType |-> changeType]

\* first loop of compareAndIdentifyChanges, from base function i on
RECURSIVE ModifiedAndDeleted(_, _, _)
ModifiedAndDeleted(baseFunctions, headFunctions, i) ==
    IF i > Len(baseFunctions) THEN <<>>
    ELSE
      LET baseFunc == baseFunctions[i]
          headFunc == FindByName(headFunctions, baseFunc.name)
          rest == ModifiedAndDeleted(baseFunctions, headFunctions, i + 1)
      IN
      IF headFunc = <<>>
      THEN <<WithChangeType(baseFunc, "deleted")>> \o rest
      ELSE IF baseFunc.content # headFunc[1].content
      THEN <<WithChangeType(headFunc[1], "modified")>> \o rest
      ELSE rest

\* second loop of compareAndIdentifyChanges, from head function i on
RECURSIVE Added(_, _, _)
Added(baseFunctions, headFunctions, i) ==
    IF i > Len(headFunctions) THEN <<>>
    ELSE
      LET headFunc == headFunctions[i]
          rest == Added(baseFunctions, headFunctions, i + 1)
      IN
      IF FindByName(baseFunctions, headFunc.name) = <<>>
      THEN <<WithChangeType(headFunc, "added")>> \o rest
      ELSE rest

\* a lookup of the base function by raw text instead of by name
RECURSIVE AddedMutByContent(_, _, _)
AddedMutByContent(baseFunctions, headFunctions, i) ==
    IF i > Len(headFunctions) THEN <<>>
    ELSE
      LET headFunc == headFunctions[i]
          rest == AddedMutByContent(baseFunctions, headFunctions, i + 1)
      IN
      IF \A k \in 1..Len(baseFunctions) :
             baseFunctions[k].content # headFunc.content
      THEN <<WithChangeType(headFunc, "added")>> \o rest
      ELSE rest

compareMutAddedByContent(baseFunctions, headFunctions) ==
    ModifiedAndDeleted(baseFunctions, headFunctions, 1)
      \o AddedMutByContent(baseFunctions, headFunctions, 1)

\* first loop without the test on the raw text: every base function the head
\* still has is reported as modified
RECURSIVE ModifiedAndDeletedMutNoTextTest(_, _, _)
ModifiedAndDeletedMutNoTextTest(baseFunctions, headFunctions, i) ==
    IF i > Len(baseFunctions) THEN <<>>
    ELSE
      LET baseFunc == baseFunctions[i]
          headFunc == FindByName(headFunctions, baseFunc.name)
          rest == ModifiedAndDeletedMutNoTextTest(baseFunctions, headFunctions, i + 1)
      IN
      IF headFunc = <<>>
      THEN <<WithChangeType(baseFunc, "deleted")>> \o rest
      ELSE <<WithChangeType(headFunc[1], "modified")>> \o rest

compareMutNoTextTest(baseFunctions, headFunctions) ==
    ModifiedAndDeletedMutNoTextTest(baseFunctions, headFunctions, 1)
      \o Added(baseFunctions, headFunctions, 1)

\* first loop with { ...baseFunc, changeType: "modified" }: a modified record
\* made from the base function
RECURSIVE ModifiedAndDeletedMutBaseSpan(_, _, _)
ModifiedAndDeletedMutBaseSpan(baseFunctions, headFunctions, i) ==
    IF i > Len(baseFunctions) THEN <<>>
    ELSE
      LET baseFunc == baseFunctions[i]
          headFunc == FindByName(headFunctions, baseFunc.name)
          rest == ModifiedAndDeletedMutBaseSpan(baseFunctions, headFunctions, i + 1)
      IN
      IF headFunc = <<>>
      THEN <<WithChangeType(baseFunc, "deleted")>> \o rest
      ELSE IF baseFunc.content # headFunc[1].content
      THEN <<WithChangeType(baseFunc, "modified")>> \o rest
      ELSE rest

compareMutBaseSpan(baseFunctions, headFunctions) ==
    ModifiedAndDeletedMutBaseSpan(baseFunctions, headFunctions, 1)
      \o Added(baseFunctions, headFunctions, 1)

compareAndIdentifyChanges(baseFunctions, headFunctions) ==
    ModifiedAndDeleted(baseFunctions, headFunctions, 1)
      \o Added(baseFunctions, headFunctions, 1)

\* functions.map((func) => ({ ...func, changeType }))
MapChangeType(functions, changeType) ==
    [i \in 1..Len(functions) |-> WithChangeType(functions[i], changeType)]

\* body of the file loop of detectChangedFunctions without the `continue`
\* of the new-file and deleted-file branches
AnalyzeFileMutNoContinue(baseContent, headContent, file) ==
    (IF baseContent = EmptyString
     THEN MapChangeType(parseClarityFunctions(headContent, file), "added")
     ELSE <<>>)
    \o (IF headContent = EmptyString
        THEN MapChangeType(parseClarityFunctions(baseContent, file), "deleted")
        ELSE <<>>)
    \o compareAndIdentifyChanges(parseClarityFunctions(baseContent, file),
                                 parseClarityFunctions(headContent, file))

\* body of the file loop of detectChangedFunctions: what is pushed to
\* changedFunctions for one file, given the two contents getFileContent gave
\* ("" when the file is absent at the revision or the fetch failed)
AnalyzeFile(baseContent, headContent, file) ==
    IF baseContent = EmptyString
    THEN MapChangeType(parseClarityFunctions(headContent, file), "added")
    ELSE IF headContent = EmptyString
    THEN MapChangeType(parseClarityFunctions(baseContent, file), "deleted")
    ELSE compareAndIdentifyChanges(parseClarityFunctions(baseContent, file),
                                   parseClarityFunctions(headContent, file))

(***************************************************************************)
(* Inputs of the checker-output model.                                     *)
(***************************************************************************)
\* the lines a checker output is made of
OutLines ==
    { <<>>,                                   \* empty line
      <<"SP", "[Counterexample]", "SP">>,     \* the marker, indented
      <<"State@17:deposit">>,
      <<"SP", "State@5:withdraw">>,
      <<"Violated property:">>,
      <<"assertion">>,
      <<"VERIFICATION SUCCESSFUL">>,
      <<"VERIFICATION FAILED">> }

\* output.split("\n") has at least one line
OutTexts == UNION { [1..n -> OutLines] : n \in 1..MaxOutLines }

\* what makes exec() reject
ContainerErrors == {"exit code 1", "docker: not found"}

JobFiles == {"contracts/sample.clar"}
JobFunctions == {"deposit", "get-balance"}

NoResult == [verified |-> FALSE, failures |-> <<>>, rawOutput |-> <<>>,
             clarityFile |-> "", functionName |-> ""]
NoOutcome == Returned(<<>>)

OutIdle ==
    /\ opc = "off" /\ ojob = [file |-> "", fn |-> ""]
    /\ ooutcome = NoOutcome /\ oresult = Returned(NoResult)
DetIdle == dpc = "off" /\ dbase = <<>> /\ dhead = <<>> /\ dchanges = <<>>
SarifIdle == spc = "off" /\ sresults = <<>> /\ sreport = <<>> /\ ssummary = <<>>
PlanIdle == ppc = "off" /\ pchanged = <<>> /\ past = {} /\ pjobs = <<>>
ParseIdle == qpc = "off" /\ qcontent = <<>> /\ qcalls = <<>>
ContractIdle ==
    /\ cpc = "off" /\ cedits = 0 /\ cbase = <<>> /\ chead = <<>>
    /\ cbaseFunctions = <<>> /\ cheadFunctions = <<>>
    /\ cchanges = <<>> /\ cjobs = <<>>
FailIdle == fpc = "off" /\ ftext = <<>> /\ ffailures = <<>>
NoListConfig == [contractsDir |-> <<>>, excludedContracts |-> <<>>]
ListIdle ==
    /\ lpc = "off" /\ lconfig = NoListConfig /\ lwarned = FALSE
    /\ loutput = <<>> /\ lexitCode = 0 /\ lattempts = <<>> /\ lfiles = <<>>
NoPublishConfig ==
    [failOnIssue |-> TRUE, inPR |-> FALSE, hasWorkspace |-> FALSE,
     hasToken |-> FALSE]
PublishIdle ==
    /\ upc = "off" /\ uresults = <<>> /\ uconfig = NoPublishConfig
    /\ uoutputs = [sarif_report |-> "", verification_status |-> ""]
    /\ ufailed = FALSE /\ ulog = <<>>
FnIdle ==
    /\ SarifIdle /\ PlanIdle /\ ParseIdle /\ ContractIdle /\ FailIdle
    /\ ListIdle /\ PublishIdle
NoOutputs == [sarif_report |-> "", verification_status |-> ""]
NoConfig == [failOnIssue |-> TRUE, inPR |-> FALSE]

RunIdle ==
    /\ rpc = "off" /\ rchanged = <<>> /\ rgroups = <<>> /\ rast = {}
    /\ rfi = 0 /\ rfj = 0 /\ rinflight = {} /\ rresults = <<>>
    /\ rconfig = NoConfig /\ routputs = NoOutputs /\ rfailed = FALSE
    /\ rlog = <<>>

(***************************************************************************)
(* SpecOut: one call runESBMC(clarityFile, astFile, functionName, ...).    *)
(***************************************************************************)
InitOut ==
    /\ opc = "idle"
    /\ ojob \in [file : JobFiles, fn : JobFunctions]
    /\ ooutcome = NoOutcome
    /\ oresult = Returned(NoResult)
    /\ DetIdle /\ RunIdle /\ FnIdle

\* runESBMC up to `await runInContainer(...)`
InvokeContainer ==
    /\ opc = "idle"
    /\ opc' = "awaiting"
    /\ UNCHANGED <<ojob, ooutcome, oresult, detVars, runVars, fnVars>>

\* the container exits with code 0; runInContainer resolves with its output,
\* runESBMC parses it and returns
ContainerReturns ==
    /\ opc = "awaiting"
    /\ \E output \in OutTexts : ooutcome' = runInContainer(Returned(output))
    /\ oresult' = runESBMC(ojob.file, ojob.fn, ooutcome')
    /\ opc' = "done"
    /\ UNCHANGED <<ojob, detVars, runVars, fnVars>>

\* exec() rejects; runInContainer throws, runESBMC's catch block handles it
ContainerThrows ==
    /\ opc = "awaiting"
    /\ \E cause \in ContainerErrors : ooutcome' = runInContainer(Threw(<<cause>>))
    /\ oresult' = runESBMC(ojob.file, ojob.fn, ooutcome')
    /\ opc' = "done"
    /\ UNCHANGED <<ojob, detVars, runVars, fnVars>>

NextOut == InvokeContainer \/ ContainerReturns \/ ContainerThrows

SpecOut == InitOut /\ [][NextOut]_vars

(***************************************************************************)
(* SpecDet: detectChangedFunctions on one modified file.                   *)
(***************************************************************************)
\* the lines a contract revision is made of
ContentLines ==
    { <<>>,
      \* (define-public (a) x)
      <<"(", "define-public", "SP", "(", "a", ")", "SP", "x", ")">>,
      \* (define-public (a) y)
      <<"(", "define-public", "SP", "(", "a", ")", "SP", "y", ")">>,
      \* (define-private (b) x)
      <<"(", "define-private", "SP", "(", "b", ")", "SP", "x", ")">>,
      \* (define-read-only (b (n))      -- left open
      <<"(", "define-read-only", "SP", "(", "b", "SP", "(", "n", ")", ")">>,
      \*   x)
      <<"SP", "x", ")">>,
      \* ;; )
      <<";;", "SP", ")">> }

Contents == UNION { [1..n -> ContentLines] : n \in 1..MaxContentLines }

DetFile == "contracts/sample.clar"

InitDet ==
    /\ dpc = "base"
    /\ dbase = EmptyString
    /\ dhead = EmptyString
    /\ dchanges = <<>>
    /\ OutIdle /\ RunIdle /\ FnIdle

\* await getFileContent(baseRef, file)
FetchBase ==
    /\ dpc = "base"
    /\ dbase' \in Contents
    /\ dpc' = "head"
    /\ UNCHANGED <<dhead, dchanges, outVars, runVars, fnVars>>

\* await getFileContent(headRef, file)
FetchHead ==
    /\ dpc = "head"
    /\ dhead' \in Contents
    /\ dpc' = "analyze"
    /\ UNCHANGED <<dbase, dchanges, outVars, runVars, fnVars>>

\* the rest of the loop body: parse, compare, push
Analyze ==
    /\ dpc = "analyze"
    /\ dchanges' = dchanges \o AnalyzeFile(dbase, dhead, DetFile)
    /\ dpc' = "done"
    /\ UNCHANGED <<dbase, dhead, outVars, runVars, fnVars>>

NextDet == FetchBase \/ FetchHead \/ Analyze

SpecDet == InitDet /\ [][NextDet]_vars

(***************************************************************************)
(* SpecRun: run() of index.ts, the orchestrator.                           *)
(***************************************************************************)
\* groupFunctionsByFile: a Map keeps its keys in insertion order; it is held
\* as the sequence of its entries [file, functions]
RECURSIVE GroupLoop(_, _, _)
GroupLoop(changedFunctions, i, functionsByFile) ==
    IF i > Len(changedFunctions) THEN functionsByFile
    ELSE
      LET func == changedFunctions[i]
          has == \E k \in 1..Len(functionsByFile) :
                     functionsByFile[k].file = func.file
          withKey == IF has THEN functionsByFile
                     ELSE Append(functionsByFile,
                                 [file |-> func.file, functions |-> <<>>])
      IN GroupLoop(changedFunctions, i + 1,
                   [k \in 1..Len(withKey) |->
                      IF withKey[k].file = func.file
                      THEN [file |-> func.file,
                            functions |-> Append(withKey[k].functions, func.name)]
                      ELSE withKey[k]])

\* functionsByFile.set(func.file, [func.name]) in the place of the push
RECURSIVE GroupLoopMutOverwrite(_, _, _)
GroupLoopMutOverwrite(changedFunctions, i, functionsByFile) ==
    IF i > Len(changedFunctions) THEN functionsByFile
    ELSE
      LET func == changedFunctions[i]
          has == \E k \in 1..Len(functionsByFile) :
                     functionsByFile[k].file = func.file
          withKey == IF has THEN functionsByFile
                     ELSE Append(functionsByFile,
                                 [file |-> func.file, functions |-> <<>>])
      IN GroupLoopMutOverwrite(changedFunctions, i + 1,
                   [k \in 1..Len(withKey) |->
                      IF withKey[k].file = func.file
                      THEN [file |-> func.file, functions |-> <<func.name>>]
                      ELSE withKey[k]])

groupFunctionsByFileMutOverwrite(changedFunctions) ==
    GroupLoopMutOverwrite(changedFunctions, 1, <<>>)

groupFunctionsByFile(changedFunctions) == GroupLoop(changedFunctions, 1, <<>>)

\* an empty array of results counts as a failure
HasFailuresMutEmptyFails(esbmcResults) ==
    \/ esbmcResults = <<>>
    \/ \E k \in 1..Len(esbmcResults) : ~esbmcResults[k].verified

\* esbmcResults.some((r) => !r.verified)
HasFailures(esbmcResults) ==
    \E k \in 1..Len(esbmcResults) : ~esbmcResults[k].verified

\* github/comment setWorkflowStatus: the call of @actions/core it makes
setWorkflowStatusMutIgnoresFlag(esbmcResults, failOnIssue) ==
    IF HasFailures(esbmcResults) THEN "setFailed" ELSE "info"

setWorkflowStatus(esbmcResults, failOnIssue) ==
    IF HasFailures(esbmcResults)
    THEN (IF failOnIssue THEN "setFailed" ELSE "warning")
    ELSE "info"

\* inputs of the orchestrator model
RunFiles == {"contracts/a.clar", "contracts/b.clar"}
RunNames == {"deposit", "get-balance"}
ChangedRecords == [file : RunFiles, name : RunNames]
\* detectChangedFunctions pushes the records file by file, and a file is
\* listed once by `git diff --name-only`: the records of a file are contiguous
ChangeSets ==
    { s \in UNION { [1..n -> ChangedRecords] : n \in 0..MaxChanged } :
        \A i \in 1..Len(s) : \A k \in i..Len(s) : \A j \in i..k :
            s[i].file = s[k].file => s[j].file = s[i].file }

SuccessfulOutput == << <<"VERIFICATION SUCCESSFUL">> >>
FailedOutput ==
    << <<"[Counterexample]">>, <<"State@17:deposit">>, <<"Violated property:">>,
       <<"assertion">>, <<"code">>, <<"VERIFICATION FAILED">> >>
\* how exec() of the checker container may end
CheckerOutcomes ==
    {Returned(SuccessfulOutput), Returned(FailedOutput), Threw(<<"exit code 1">>)}

\* how a call of the GitHub API (or the read of the report file before it)
\* may end
ApiOutcomes == {Returned(<<>>), Threw(<<"HttpError">>)}

\* github/comment uploadSARIF: the value it resolves with; every error is
\* caught inside
uploadSARIF(hasWorkspace, hasToken, api) ==
    IF ~hasWorkspace THEN FALSE
    ELSE IF ~hasToken THEN FALSE
    ELSE IF api.threw THEN FALSE
    ELSE TRUE

\* github/comment postPRComment: the value it resolves with; every error is
\* caught inside
postPRComment(inPullRequest, hasToken, api) ==
    IF ~inPullRequest THEN FALSE
    ELSE IF ~hasToken THEN FALSE
    ELSE IF api.threw THEN FALSE
    ELSE TRUE

Event(ev, kind, file, fn, failed) ==
    [ev |-> ev, kind |-> kind, file |-> file, fn |-> fn, failed |-> failed]
Call(kind, file, fn) == [kind |-> kind, file |-> file, fn |-> fn]

CurFile == rgroups[rfi].file
CurFunctions == rgroups[rfi].functions

InitRun ==
    /\ rpc = "detect"
    /\ rchanged = <<>> /\ rgroups = <<>> /\ rast = {}
    /\ rfi = 0 /\ rfj = 0 /\ rinflight = {} /\ rresults = <<>>
    /\ rconfig \in [failOnIssue : BOOLEAN, inPR : BOOLEAN]
    /\ routputs = NoOutputs /\ rfailed = FALSE
    /\ rlog = <<>>
    /\ OutIdle /\ DetIdle /\ FnIdle

\* the output is set and run() goes on instead of returning
DetectNoChangesMutNoReturn ==
    /\ rpc = "detect"
    /\ rchanged' = <<>>
    /\ routputs' = [routputs EXCEPT !.verification_status = "no_changes"]
    /\ rgroups' = groupFunctionsByFile(rchanged')
    /\ rfi' = 1
    /\ rpc' = "ast"
    /\ UNCHANGED <<rast, rfj, rinflight, rresults, rconfig, rfailed, rlog,
                   outVars, detVars, fnVars>>

\* detectChangedFunctions returned no record: 'no_changes', return
DetectNoChanges ==
    /\ rpc = "detect"
    /\ rchanged' = <<>>
    /\ routputs' = [routputs EXCEPT !.verification_status = "no_changes"]
    /\ rpc' = "done"
    /\ UNCHANGED <<rgroups, rast, rfi, rfj, rinflight, rresults, rconfig,
                   rfailed, rlog, outVars, detVars, fnVars>>

\* detectChangedFunctions returned records; they are grouped by file
DetectChanges ==
    /\ rpc = "detect"
    /\ rchanged' \in ChangeSets \ {<<>>}
    /\ rgroups' = groupFunctionsByFile(rchanged')
    /\ rfi' = 1
    /\ rpc' = "ast"
    /\ UNCHANGED <<rast, rfj, rinflight, rresults, rconfig, routputs, rfailed,
                   rlog, outVars, detVars, fnVars>>

\* generateASTs: `await generateAST(file, ...)` is started for the next file
AstStart ==
    /\ rpc = "ast" /\ rfi <= Len(rgroups)
    /\ rinflight' = rinflight \cup {Call("ast", CurFile, "")}
    /\ rlog' = Append(rlog, Event("start", "ast", CurFile, "", FALSE))
    /\ rpc' = "astwait"
    /\ UNCHANGED <<rchanged, rgroups, rast, rfi, rfj, rresults, rconfig,
                   routputs, rfailed, outVars, detVars, fnVars>>

\* generateAST resolved: astMap.set(file, astPath)
AstReturns ==
    /\ rpc = "astwait"
    /\ rast' = rast \cup {CurFile}
    /\ rinflight' = rinflight \ {Call("ast", CurFile, "")}
    /\ rlog' = Append(rlog, Event("end", "ast", CurFile, "", FALSE))
    /\ rfi' = rfi + 1
    /\ rpc' = "ast"
    /\ UNCHANGED <<rchanged, rgroups, rfj, rresults, rconfig, routputs,
                   rfailed, outVars, detVars, fnVars>>

\* generateAST threw: the catch block warns, the file gets no entry
AstThrows ==
    /\ rpc = "astwait"
    /\ rinflight' = rinflight \ {Call("ast", CurFile, "")}
    /\ rlog' = Append(rlog, Event("end", "ast", CurFile, "", TRUE))
    /\ rfi' = rfi + 1
    /\ rpc' = "ast"
    /\ UNCHANGED <<rchanged, rgroups, rast, rfj, rresults, rconfig, routputs,
                   rfailed, outVars, detVars, fnVars>>

\* generateASTs returned astMap; the job loop starts at the first entry
AstDone ==
    /\ rpc = "ast" /\ rfi > Len(rgroups)
    /\ rfi' = 1 /\ rfj' = 1
    /\ rpc' = "jobs"
    /\ UNCHANGED <<rchanged, rgroups, rast, rinflight, rresults, rconfig,
                   routputs, rfailed, rlog, outVars, detVars, fnVars>>

\* `break` in the place of `continue`
SkipFileMutBreak ==
    /\ rpc = "jobs" /\ rfi <= Len(rgroups)
    /\ CurFile \notin rast
    /\ rfi' = Len(rgroups) + 1 /\ rfj' = 1
    /\ UNCHANGED <<rpc, rchanged, rgroups, rast, rinflight, rresults, rconfig,
                   routputs, rfailed, rlog, outVars, detVars, fnVars>>

\* `if (!astFile) { warning; continue }`
SkipFile ==
    /\ rpc = "jobs" /\ rfi <= Len(rgroups)
    /\ CurFile \notin rast
    /\ rfi' = rfi + 1 /\ rfj' = 1
    /\ UNCHANGED <<rpc, rchanged, rgroups, rast, rinflight, rresults, rconfig,
                   routputs, rfailed, rlog, outVars, detVars, fnVars>>

\* the inner loop over the functions of the file is over
NextFile ==
    /\ rpc = "jobs" /\ rfi <= Len(rgroups)
    /\ CurFile \in rast /\ rfj > Len(CurFunctions)
    /\ rfi' = rfi + 1 /\ rfj' = 1
    /\ UNCHANGED <<rpc, rchanged, rgroups, rast, rinflight, rresults, rconfig,
                   routputs, rfailed, rlog, outVars, detVars, fnVars>>

\* the call is started and not awaited: the loop goes on to the next function
EsbmcStartMutNoAwait ==
    /\ rpc = "jobs" /\ rfi <= Len(rgroups)
    /\ CurFile \in rast /\ rfj <= Len(CurFunctions)
    /\ rinflight' = rinflight \cup {Call("esbmc", CurFile, CurFunctions[rfj])}
    /\ rlog' = Append(rlog,
                      Event("start", "esbmc", CurFile, CurFunctions[rfj], FALSE))
    /\ rfj' = rfj + 1
    /\ UNCHANGED <<rpc, rchanged, rgroups, rast, rfi, rresults, rconfig,
                   routputs, rfailed, outVars, detVars, fnVars>>

\* `await runESBMC(file, astFile, func, ...)` is started
EsbmcStart ==
    /\ rpc = "jobs" /\ rfi <= Len(rgroups)
    /\ CurFile \in rast /\ rfj <= Len(CurFunctions)
    /\ rinflight' = rinflight \cup {Call("esbmc", CurFile, CurFunctions[rfj])}
    /\ rlog' = Append(rlog,
                      Event("start", "esbmc", CurFile, CurFunctions[rfj], FALSE))
    /\ rpc' = "jobwait"
    /\ UNCHANGED <<rchanged, rgroups, rast, rfi, rfj, rresults, rconfig,
                   routputs, rfailed, outVars, detVars, fnVars>>

\* a result with verified = false ends the loop
EsbmcCompletesMutStopOnFailure ==
    /\ rpc = "jobwait"
    /\ \E execOutcome \in CheckerOutcomes :
         LET completion == runESBMC(CurFile, CurFunctions[rfj],
                                    runInContainer(execOutcome))
         IN /\ rresults' = IF completion.threw THEN rresults
                           ELSE Append(rresults, completion.value)
            /\ rlog' = Append(rlog, Event("end", "esbmc", CurFile,
                                          CurFunctions[rfj], execOutcome.threw))
            /\ rpc' = IF completion.threw \/ ~completion.value.verified
                      THEN "report" ELSE "jobs"
    /\ rinflight' = rinflight \ {Call("esbmc", CurFile, CurFunctions[rfj])}
    /\ rfj' = rfj + 1
    /\ UNCHANGED <<rchanged, rgroups, rast, rfi, rconfig, routputs, rfailed,
                   outVars, detVars, fnVars>>

\* runESBMC completed: its result is pushed (try), or its error logged (catch)
EsbmcCompletes ==
    /\ rpc = "jobwait"
    /\ \E execOutcome \in CheckerOutcomes :
         LET completion == runESBMC(CurFile, CurFunctions[rfj],
                                    runInContainer(execOutcome))
         IN /\ rresults' = IF completion.threw THEN rresults
                           ELSE Append(rresults, completion.value)
            /\ rlog' = Append(rlog, Event("end", "esbmc", CurFile,
                                          CurFunctions[rfj], execOutcome.threw))
    /\ rinflight' = rinflight \ {Call("esbmc", CurFile, CurFunctions[rfj])}
    /\ rfj' = rfj + 1
    /\ rpc' = "jobs"
    /\ UNCHANGED <<rchanged, rgroups, rast, rfi, rconfig, routputs, rfailed,
                   outVars, detVars, fnVars>>

\* the outer loop is over
JobsDone ==
    /\ rpc = "jobs" /\ rfi > Len(rgroups)
    /\ rpc' = "report"
    /\ UNCHANGED <<rchanged, rgroups, rast, rfi, rfj, rinflight, rresults,
                   rconfig, routputs, rfailed, rlog, outVars, detVars, fnVars>>

\* generateSARIF, writeSARIFReport, setOutput("sarif_report", sarifPath)
WriteReport ==
    /\ rpc = "report"
    /\ routputs' = [routputs EXCEPT !.sarif_report = "results.sarif"]
    /\ rpc' = "upload"
    /\ UNCHANGED <<rchanged, rgroups, rast, rfi, rfj, rinflight, rresults,
                   rconfig, rfailed, rlog, outVars, detVars, fnVars>>

\* writeSARIFReport threw: the catch of run() calls setFailed
WriteReportThrows ==
    /\ rpc = "report"
    /\ rfailed' = TRUE
    /\ rpc' = "done"
    /\ UNCHANGED <<rchanged, rgroups, rast, rfi, rfj, rinflight, rresults,
                   rconfig, routputs, rlog, outVars, detVars, fnVars>>

\* `await uploadSARIF(sarifPath)` is started
UploadStart ==
    /\ rpc = "upload"
    /\ rinflight' = rinflight \cup {Call("upload", "", "")}
    /\ rlog' = Append(rlog, Event("start", "upload", "", "", FALSE))
    /\ rpc' = "uploadwait"
    /\ UNCHANGED <<rchanged, rgroups, rast, rfi, rfj, rresults, rconfig,
                   routputs, rfailed, outVars, detVars, fnVars>>

\* uploadSARIF resolved, with true or (its own error caught) with false:
\* run() drops the value
UploadCompletes ==
    /\ rpc = "uploadwait"
    /\ rinflight' = rinflight \ {Call("upload", "", "")}
    /\ rlog' = Append(rlog, Event("end", "upload", "", "", FALSE))
    /\ rpc' = IF rconfig.inPR THEN "comment" ELSE "status"
    /\ UNCHANGED <<rchanged, rgroups, rast, rfi, rfj, rresults, rconfig,
                   routputs, rfailed, outVars, detVars, fnVars>>

\* `await postPRComment(...)` is started (pull request context only)
CommentStart ==
    /\ rpc = "comment"
    /\ rinflight' = rinflight \cup {Call("comment", "", "")}
    /\ rlog' = Append(rlog, Event("start", "comment", "", "", FALSE))
    /\ rpc' = "commentwait"
    /\ UNCHANGED <<rchanged, rgroups, rast, rfi, rfj, rresults, rconfig,
                   routputs, rfailed, outVars, detVars, fnVars>>

\* postPRComment resolved, with true or (its own error caught) with false:
\* run() drops the value
CommentCompletes ==
    /\ rpc = "commentwait"
    /\ rinflight' = rinflight \ {Call("comment", "", "")}
    /\ rlog' = Append(rlog, Event("end", "comment", "", "", FALSE))
    /\ rpc' = "status"
    /\ UNCHANGED <<rchanged, rgroups, rast, rfi, rfj, rresults, rconfig,
                   routputs, rfailed, outVars, detVars, fnVars>>

\* `every` in the place of `some` in hasFailures
SetStatusMutEvery ==
    /\ rpc = "status"
    /\ routputs' = [routputs EXCEPT !.verification_status =
                      IF \A k \in 1..Len(rresults) : ~rresults[k].verified
                      THEN "failure" ELSE "success"]
    /\ rfailed' = (setWorkflowStatus(rresults, rconfig.failOnIssue) = "setFailed")
    /\ rpc' = "done"
    /\ UNCHANGED <<rchanged, rgroups, rast, rfi, rfj, rinflight, rresults,
                   rconfig, rlog, outVars, detVars, fnVars>>

\* setOutput("verification_status", ...) and setWorkflowStatus(...)
SetStatus ==
    /\ rpc = "status"
    /\ routputs' = [routputs EXCEPT !.verification_status =
                      IF HasFailures(rresults) THEN "failure" ELSE "success"]
    /\ rfailed' = (setWorkflowStatus(rresults, rconfig.failOnIssue) = "setFailed")
    /\ rpc' = "done"
    /\ UNCHANGED <<rchanged, rgroups, rast, rfi, rfj, rinflight, rresults,
                   rconfig, rlog, outVars, detVars, fnVars>>

NextRun ==
    \/ DetectNoChanges \/ DetectChanges
    \/ AstStart \/ AstReturns \/ AstThrows \/ AstDone
    \/ SkipFile \/ NextFile \/ EsbmcStart \/ EsbmcCompletes \/ JobsDone
    \/ WriteReport \/ WriteReportThrows
    \/ UploadStart \/ UploadCompletes \/ CommentStart \/ CommentCompletes
    \/ SetStatus

SpecRun == InitRun /\ [][NextRun]_vars

(***************************************************************************)
(* Claims on the checker output (SpecOut).                                 *)
(***************************************************************************)
\* the call returned after the container wrote `ooutcome.value`
ParsedOutput == opc = "done" /\ ~ooutcome.threw
HasSuccessful == Includes(ooutcome.value, "VERIFICATION SUCCESSFUL")
HasFailed == Includes(ooutcome.value, "VERIFICATION FAILED")

\* C1: an output that contains 'VERIFICATION SUCCESSFUL' anywhere gives
\* verified = true and no failures, whatever else the text contains
\* ('VERIFICATION FAILED', complete counterexample blocks).
C1_SuccessfulWins ==
    (ParsedOutput /\ HasSuccessful) =>
        /\ ~oresult.threw
        /\ oresult.value.verified = TRUE
        /\ oresult.value.failures = <<>>

\* C1 witness: a parsed output with both markers and a counterexample block
\* that the state machine would turn into a record.
C1_Witness ==
    /\ ParsedOutput /\ HasSuccessful /\ HasFailed
    /\ parseFailingFunctions(ooutcome.value) # <<>>
    /\ oresult.value.verified

\* C2: an output with 'VERIFICATION FAILED' and without 'VERIFICATION
\* SUCCESSFUL' gives verified = false and as failures exactly the records of
\* parseFailingFunctions over the full text, in order; no record gives the
\* empty list, not an error.
C2_FailedGivesParsedRecords ==
    (ParsedOutput /\ HasFailed /\ ~HasSuccessful) =>
        /\ ~oresult.threw
        /\ oresult.value.verified = FALSE
        /\ oresult.value.failures = parseFailingFunctions(ooutcome.value)

\* C2 witness: a failed output whose block gave a record carrying a State
\* annotation.
C2_Witness ==
    /\ ParsedOutput /\ HasFailed /\ ~HasSuccessful
    /\ Len(oresult.value.failures) >= 1
    /\ oresult.value.failures[1].lineNumber = 17

\* C3: an output with neither marker gives verified = false and exactly one
\* failure, titled 'unknown-result', line -1, with the fixed explanatory
\* text, whatever counterexample blocks the text contains.
C3_NeitherGivesUnknownResult ==
    (ParsedOutput /\ ~HasFailed /\ ~HasSuccessful) =>
        /\ ~oresult.threw
        /\ oresult.value.verified = FALSE
        /\ Len(oresult.value.failures) = 1
        /\ oresult.value.failures[1].title = <<"unknown-result">>
        /\ oresult.value.failures[1].lineNumber = -1
        /\ oresult.value.failures[1].failingCode =
             <<"ESBMC did not produce a clear verification result">>

\* C3 witness: an output with neither marker that holds a complete
\* counterexample block.
C3_Witness ==
    /\ ParsedOutput /\ ~HasFailed /\ ~HasSuccessful
    /\ parseFailingFunctions(ooutcome.value) # <<>>
    /\ Len(oresult.value.failures) = 1

\* C4: when the container call throws, runESBMC returns (it does not throw)
\* a result with verified = false and exactly one failure: title
\* 'execution-error', line -1, the job's function name, and the error text
\* in failingCode.
C4_ThrowBecomesExecutionError ==
    (opc = "done" /\ ooutcome.threw) =>
        /\ ~oresult.threw
        /\ oresult.value.verified = FALSE
        /\ Len(oresult.value.failures) = 1
        /\ oresult.value.failures[1].title = <<"execution-error">>
        /\ oresult.value.failures[1].lineNumber = -1
        /\ oresult.value.failures[1].functionName = ojob.fn
        /\ oresult.value.failures[1].failingCode =
             <<"ESBMC execution failed: ">> \o ooutcome.error

\* C4 witness: a call whose container invocation failed, for `get-balance`.
C4_Witness ==
    /\ opc = "done" /\ ooutcome.threw /\ ojob.fn = "get-balance"
    /\ ooutcome.error[Len(ooutcome.error)] = "exit code 1"
    /\ ~oresult.threw

\* C35: every result runESBMC returns, on the success, failure,
\* unknown-result and execution-error paths alike, has no failures when
\* verified is true, and carries the file and the function name of the job
\* that produced it.
C35_ResultBelongsToItsJob ==
    opc = "done" =>
        /\ ~oresult.threw
        /\ (oresult.value.verified => oresult.value.failures = <<>>)
        /\ oresult.value.clarityFile = ojob.file
        /\ oresult.value.functionName = ojob.fn

\* a verified result for 'deposit' whose output also holds a counterexample
\* block that ends inside its trigger
C35_Witness ==
    /\ ParsedOutput /\ HasSuccessful
    /\ ojob.fn = "deposit"
    /\ Len(parseFailingFunctions(ooutcome.value)) = 1
    /\ parseFailingFunctions(ooutcome.value)[1].title = <<"unknown-property">>
    /\ oresult.value.verified
    /\ oresult.value.functionName = "deposit"

(***************************************************************************)
(* Claims on the comparator and the per-file detection (SpecDet).          *)
(***************************************************************************)
BaseFns == parseClarityFunctions(dbase, DetFile)
HeadFns == parseClarityFunctions(dhead, DetFile)

\* both revisions had content: dchanges is what compareAndIdentifyChanges
\* returned for BaseFns and HeadFns
Compared == dpc = "done" /\ dbase # EmptyString /\ dhead # EmptyString

NamesOf(functions) == [i \in 1..Len(functions) |-> functions[i].name]
ChangesOfType(t) == SelectSeq(dchanges, LAMBDA r : r.changeType = t)
NameIn(name, functions) ==
    \E k \in 1..Len(functions) : functions[k].name = name
NameInWithOtherText(func, functions) ==
    \E k \in 1..Len(functions) :
        functions[k].name = func.name /\ functions[k].content # func.content

\* C5 (as stated): 'deleted' exactly for the base functions whose name is
\* nowhere in head, 'modified' exactly for the base functions whose name
\* occurs in head with a different raw text, 'added' exactly for the head
\* functions whose name is nowhere in base; a 'modified' record has a
\* same-name function with another raw text in the opposite revision, an
\* 'added' or 'deleted' record has no same-name function there.
C5_ClassificationAsStated ==
    Compared =>
        /\ NamesOf(ChangesOfType("deleted")) =
             NamesOf(SelectSeq(BaseFns, LAMBDA b : ~NameIn(b.name, HeadFns)))
        /\ NamesOf(ChangesOfType("modified")) =
             NamesOf(SelectSeq(BaseFns,
                               LAMBDA b : NameInWithOtherText(b, HeadFns)))
        /\ NamesOf(ChangesOfType("added")) =
             NamesOf(SelectSeq(HeadFns, LAMBDA h : ~NameIn(h.name, BaseFns)))
        /\ \A i \in 1..Len(dchanges) :
             LET r == dchanges[i] IN
             /\ r.changeType = "modified" => NameInWithOtherText(r, BaseFns)
             /\ r.changeType = "added" => ~NameIn(r.name, BaseFns)
             /\ r.changeType = "deleted" => ~NameIn(r.name, HeadFns)

\* What the comparator does instead for 'modified': the base function is
\* compared with the first head function of its name only.
FirstOfNameDiffers(b, functions) ==
    /\ FindByName(functions, b.name) # <<>>
    /\ FindByName(functions, b.name)[1].content # b.content

C5_FirstMatchClassification ==
    Compared =>
        /\ NamesOf(ChangesOfType("deleted")) =
             NamesOf(SelectSeq(BaseFns, LAMBDA b : ~NameIn(b.name, HeadFns)))
        /\ NamesOf(ChangesOfType("modified")) =
             NamesOf(SelectSeq(BaseFns,
                               LAMBDA b : FirstOfNameDiffers(b, HeadFns)))
        /\ NamesOf(ChangesOfType("added")) =
             NamesOf(SelectSeq(HeadFns, LAMBDA h : ~NameIn(h.name, BaseFns)))

\* the raw texts of the functions called `name`, in source order
TextsOfName(functions, name) ==
    LET same == SelectSeq(functions, LAMBDA f : f.name = name)
    IN [i \in 1..Len(same) |-> same[i].content]

\* function identity is keyed by name: a function is unchanged when its name
\* is defined in both revisions with the same raw text(s)
Unchanged(name) ==
    /\ NameIn(name, BaseFns)
    /\ TextsOfName(BaseFns, name) = TextsOfName(HeadFns, name)

\* C6 (as stated): unchanged functions never appear in the output, and
\* comparing a function sequence with an identical copy of itself gives the
\* empty change set, whatever the names.
C6_UnchangedOmittedAsStated ==
    Compared =>
        /\ \A i \in 1..Len(dchanges) : ~Unchanged(dchanges[i].name)
        /\ (BaseFns = HeadFns => dchanges = <<>>)

\* C7: no function name is in the output under two change types; every
\* record is in exactly one of added, modified, deleted.
C7_OneBucketPerName ==
    Compared =>
        \A i \in 1..Len(dchanges) :
            /\ dchanges[i].changeType \in {"added", "modified", "deleted"}
            /\ \A j \in 1..Len(dchanges) :
                 dchanges[i].name = dchanges[j].name
                   => dchanges[i].changeType = dchanges[j].changeType

\* C7 witness: a comparison that gave a 'modified' record and a record of
\* another type.
C7_Witness ==
    /\ Compared
    /\ \E i, j \in 1..Len(dchanges) :
         /\ dchanges[i].changeType = "modified"
         /\ dchanges[j].changeType # "modified"

\* C8: base absent, head present: exactly the head functions, all 'added';
\* head absent, base present: exactly the base functions, all 'deleted';
\* both equal what compareAndIdentifyChanges gives with the empty function
\* sequence on the missing side.
C8_AbsentSideIsEmptySequence ==
    /\ (dpc = "done" /\ dbase = EmptyString /\ dhead # EmptyString) =>
          /\ dchanges = MapChangeType(HeadFns, "added")
          /\ dchanges = compareAndIdentifyChanges(<<>>, HeadFns)
    /\ (dpc = "done" /\ dhead = EmptyString /\ dbase # EmptyString) =>
          /\ dchanges = MapChangeType(BaseFns, "deleted")
          /\ dchanges = compareAndIdentifyChanges(BaseFns, <<>>)

\* C8 witness: a new file with two functions, both added.
C8_Witness ==
    /\ dpc = "done" /\ dbase = EmptyString /\ dhead # EmptyString
    /\ Len(dchanges) = 2
    /\ dchanges[1].name # dchanges[2].name
    /\ dchanges[1].changeType = "added"
    /\ dchanges[2].changeType = "added"

\* record r holds the name, span, raw text and file of function f
CarriesFunction(r, f) ==
    /\ r.name = f.name /\ r.startLine = f.startLine /\ r.endLine = f.endLine
    /\ r.content = f.content /\ r.file = f.file

\* C30: every 'deleted' record carries the start line, end line, raw text and
\* file of a base function of its name; every 'added' or 'modified' record
\* those of a head-revision function of its name.
C30_RecordsCarryTheirRevision ==
    dpc = "done" =>
      \A k \in 1..Len(dchanges) :
        IF dchanges[k].changeType = "deleted"
        THEN \E j \in 1..Len(BaseFns) : CarriesFunction(dchanges[k], BaseFns[j])
        ELSE \E j \in 1..Len(HeadFns) : CarriesFunction(dchanges[k], HeadFns[j])

\* a function deleted and another modified, the modified one on another line
\* in the head revision than in the base
C30_Witness ==
    /\ Compared /\ Len(dchanges) = 2
    /\ dchanges[1].changeType = "modified"
    /\ dchanges[2].changeType = "deleted"
    /\ \E j \in 1..Len(BaseFns) :
         /\ BaseFns[j].name = dchanges[1].name
         /\ BaseFns[j].startLine # dchanges[1].startLine


(***************************************************************************)
(* Claims on the orchestrator (SpecRun).                                   *)
(***************************************************************************)
\* the job loop of run() as a whole: the runESBMC calls it makes, in order,
\* for the functions of every file that has an AST
RECURSIVE JobsOf(_, _)
JobsOf(groups, astFiles) ==
    IF groups = <<>> THEN <<>>
    ELSE LET g == Head(groups)
         IN (IF g.file \in astFiles
             THEN [k \in 1..Len(g.functions) |->
                     [file |-> g.file, fn |-> g.functions[k]]]
             ELSE <<>>) \o JobsOf(Tail(groups), astFiles)

Jobs == JobsOf(rgroups, rast)
IsStartOf(kind, e) == e.ev = "start" /\ e.kind = kind
IsEndOf(kind, e) == e.ev = "end" /\ e.kind = kind
EsbmcStarted == SelectSeq(rlog, LAMBDA e : IsStartOf("esbmc", e))
EsbmcEnded == SelectSeq(rlog, LAMBDA e : IsEndOf("esbmc", e))
AstStarted == SelectSeq(rlog, LAMBDA e : IsStartOf("ast", e))
AstEnded == SelectSeq(rlog, LAMBDA e : IsEndOf("ast", e))
AfterJobLoop ==
    rpc \in {"report", "upload", "uploadwait", "comment", "commentwait", "status"}
       \/ (rpc = "done" /\ rchanged # <<>>)
\* the invocations so far are the first jobs of the run, in job order
InvokedInJobOrder ==
    LET jobs == Jobs
        started == EsbmcStarted
    IN /\ Len(started) <= Len(jobs)
       /\ \A k \in 1..Len(started) :
            /\ started[k].file = jobs[k].file
            /\ started[k].fn = jobs[k].fn

\* C9: every job of a file that has an AST is invoked exactly once and
\* contributes exactly one result, in job order; a job whose invocation fails
\* contributes a result with verified = false, and the jobs after it are
\* still invoked: once the loop is over, all jobs were invoked and answered.
C9_EveryJobOneResult ==
    LET jobs == Jobs
        ended == EsbmcEnded
    IN /\ InvokedInJobOrder
       /\ Len(rresults) = Len(ended)
       /\ \A k \in 1..Len(ended) :
            /\ rresults[k].clarityFile = jobs[k].file
            /\ rresults[k].functionName = jobs[k].fn
            /\ ended[k].failed => ~rresults[k].verified
       /\ AfterJobLoop =>
            /\ Len(EsbmcStarted) = Len(jobs)
            /\ Len(rresults) = Len(jobs)

\* a finished run whose first job failed and whose later job was verified
C9_Witness ==
    /\ rpc = "done" /\ Len(Jobs) >= 2
    /\ EsbmcEnded[1].failed /\ ~rresults[1].verified
    /\ Len(rresults) = Len(Jobs)
    /\ rresults[2].verified

\* C10: at most one external call is in flight at any time; the call for a
\* job starts only when the results of all jobs before it are appended; the
\* jobs run file-outer/function-inner; the AST of the files is generated one
\* file at a time and for all files before the first checker invocation.
C10_OneCallInFlight ==
    /\ Cardinality(rinflight) <= 1
    /\ \A p \in 1..Len(rlog) :
         IF p % 2 = 1
         THEN rlog[p].ev = "start"
         ELSE /\ rlog[p].ev = "end"
              /\ rlog[p].kind = rlog[p - 1].kind
              /\ rlog[p].file = rlog[p - 1].file
              /\ rlog[p].fn = rlog[p - 1].fn
    /\ rinflight = IF Len(rlog) % 2 = 1
                   THEN {Call(rlog[Len(rlog)].kind, rlog[Len(rlog)].file,
                              rlog[Len(rlog)].fn)}
                   ELSE {}
    /\ Len(EsbmcStarted) =
         Len(rresults) + (IF \E c \in rinflight : c.kind = "esbmc" THEN 1 ELSE 0)
    /\ InvokedInJobOrder
    /\ \A q \in 1..Len(rlog) :
         rlog[q].kind = "ast" => \A p \in 1..q - 1 : rlog[p].kind # "esbmc"
    /\ LET started == AstStarted
       IN /\ Len(started) <= Len(rgroups)
          /\ \A k \in 1..Len(started) : started[k].file = rgroups[k].file
    /\ EsbmcStarted # <<>> => Len(AstEnded) = Len(rgroups)

\* two functions of the first file are answered, and the call in flight is
\* the one of the second file
C10_Witness ==
    /\ rpc = "jobwait"
    /\ Len(rchanged) = 3
    /\ rchanged[1].file = rchanged[2].file
    /\ rchanged[2].file # rchanged[3].file
    /\ Len(rresults) = 2
    /\ rinflight = {Call("esbmc", rchanged[3].file, rchanged[3].name)}


\* C11: when change detection yields the empty change set, the status output
\* is 'no_changes' and the run is over at once: nothing was generated,
\* invoked, written, uploaded, commented or marked, and no step follows.
C11_NoChangesEndsRun ==
    [][ /\ (rpc = "detect" /\ rchanged' = <<>>) =>
             /\ rpc' = "done"
             /\ routputs' = [sarif_report |-> "", verification_status |-> "no_changes"]
             /\ rlog' = <<>> /\ rinflight' = {} /\ rast' = {}
             /\ rresults' = <<>> /\ rfailed' = FALSE
        /\ rpc # "done" ]_vars

C11_Witness ==
    /\ rpc = "done" /\ rchanged = <<>>
    /\ routputs.verification_status = "no_changes"

StatusStepDone ==
    rpc = "done" /\ rchanged # <<>> /\ routputs.sarif_report # ""
SomeResultFailed == \E k \in 1..Len(rresults) : rresults[k].verified = FALSE

\* C12: the status output, once set, is one of 'success', 'failure',
\* 'no_changes'; after a completed run on a non-empty change set it is
\* 'failure' exactly when some accumulated result has verified = false, and
\* 'success' otherwise.
C12_StatusFromResults ==
    /\ routputs.verification_status \in {"", "success", "failure", "no_changes"}
    /\ StatusStepDone =>
         routputs.verification_status =
             IF SomeResultFailed THEN "failure" ELSE "success"

\* a completed run with a verified and a failed result
C12_Witness ==
    /\ StatusStepDone
    /\ Len(rresults) = 2
    /\ rresults[1].verified /\ ~rresults[2].verified
    /\ routputs.verification_status = "failure"

\* C13: the verification step marks the workflow failed exactly when some
\* result has verified = false and fail_on_issue is true; with fail_on_issue
\* false a failed result gives a warning only, the workflow is not marked
\* failed and the status output is still 'failure'.
C13_FailOnlyWithFlag ==
    StatusStepDone =>
        /\ rfailed <=> (SomeResultFailed /\ rconfig.failOnIssue)
        /\ (SomeResultFailed /\ ~rconfig.failOnIssue) =>
             /\ setWorkflowStatus(rresults, rconfig.failOnIssue) = "warning"
             /\ ~rfailed
             /\ routputs.verification_status = "failure"

\* a completed run with a failed result and fail_on_issue false
C13_Witness ==
    /\ StatusStepDone
    /\ SomeResultFailed /\ ~rconfig.failOnIssue
    /\ ~rfailed /\ routputs.verification_status = "failure"

\* the number of changed-function records of a file
RecordsOfFile(file) ==
    Len(SelectSeq(rchanged, LAMBDA c : c.file = file))
CallsOfFile(file) ==
    Len(SelectSeq(rlog, LAMBDA e : IsStartOf("esbmc", e) /\ e.file = file))
ResultsOfFile(file) ==
    Len(SelectSeq(rresults, LAMBDA r : r.clarityFile = file))
AstFailedFor(file) ==
    \E p \in 1..Len(rlog) :
        IsEndOf("ast", rlog[p]) /\ rlog[p].file = file /\ rlog[p].failed

\* C15: a file whose AST generation failed has no checker invocation and no
\* result for any of its changed functions; the run is not aborted, and the
\* jobs of every file that has an artifact are executed.
C15_MissingAstSkipsFile ==
    \A file \in RunFiles :
        /\ AstFailedFor(file) =>
             /\ CallsOfFile(file) = 0
             /\ ResultsOfFile(file) = 0
             /\ rpc # "done" => ~rfailed
        /\ (AfterJobLoop /\ file \in rast) =>
             /\ CallsOfFile(file) = RecordsOfFile(file)
             /\ ResultsOfFile(file) = RecordsOfFile(file)

\* the first file has no artifact, the job of the second file was run and
\* the run went on to its end
C15_Witness ==
    /\ StatusStepDone
    /\ Len(rgroups) = 2
    /\ AstFailedFor(rgroups[1].file)
    /\ rgroups[2].file \in rast
    /\ ResultsOfFile(rgroups[2].file) >= 1


(***************************************************************************)
(* SpecSarif: sarif/converter, the report generator.                       *)
(*                                                                         *)
(* A title and a failing code are token sequences, as the output parser    *)
(* makes them; a text built by a template literal is the sequence of its   *)
(* pieces, a number in it being its decimal text; the backquote of the     *)
(* summary's Markdown is written ' in the pieces.                          *)
(***************************************************************************)
\* defineRules: the ids of the rules, in order
defineRules ==
    << "clarity-verify-assertion", "clarity-verify-overflow",
       "clarity-verify-underflow", "clarity-verify-division-by-zero",
       "clarity-verify-execution-error", "clarity-verify-unknown-error" >>

\* the own properties of the object literal titleMap
titleMap ==
    (<<"assertion">> :> "clarity-verify-assertion")
    @@ (<<"arithmetic overflow">> :> "clarity-verify-overflow")
    @@ (<<"arithmetic underflow">> :> "clarity-verify-underflow")
    @@ (<<"division by zero">> :> "clarity-verify-division-by-zero")
    @@ (<<"execution-error">> :> "clarity-verify-execution-error")

\* titleMap is an object literal: its prototype is Object.prototype, and
\* titleMap[key] finds the members of the prototype as well
ObjectPrototypeKeys ==
    { <<"constructor">>, <<"toString">>, <<"toLocaleString">>, <<"valueOf">>,
      <<"hasOwnProperty">>, <<"isPrototypeOf">>, <<"propertyIsEnumerable">>,
      <<"__proto__">> }

\* what titleMap[title] evaluates to for a key of Object.prototype: a function
\* or an object, never a string; all of them are truthy
InheritedMember == "[member of Object.prototype]"

\* mapTitleToRuleId: titleMap[title] || "clarity-verify-unknown-error"
mapTitleToRuleId(title) ==
    IF title \in DOMAIN titleMap THEN titleMap[title]
    ELSE IF title \in ObjectPrototypeKeys THEN InheritedMember
    ELSE "clarity-verify-unknown-error"

FirstColumn == 1

FindingMutZeroIsALine(result, failure) ==
    [ruleId |-> mapTitleToRuleId(failure.title),
     message |-> <<"Verification failed in function '", failure.functionName,
                   "': ">> \o failure.failingCode,
     uri |-> result.clarityFile,
     startLine |-> IF failure.lineNumber >= 0 THEN failure.lineNumber ELSE 1,
     startColumn |-> FirstColumn]

\* the SARIFResult pushed for one failure of a result
Finding(result, failure) ==
    [ruleId |-> mapTitleToRuleId(failure.title),
     message |-> <<"Verification failed in function '", failure.functionName,
                   "': ">> \o failure.failingCode,
     uri |-> result.clarityFile,
     startLine |-> IF failure.lineNumber > 0 THEN failure.lineNumber ELSE 1,
     startColumn |-> FirstColumn]

\* the inner loop of convertToSARIFResults
FindingsOf(result) ==
    [k \in 1..Len(result.failures) |-> Finding(result, result.failures[k])]

RECURSIVE convertMutIgnoresVerified(_)
convertMutIgnoresVerified(esbmcResults) ==
    IF esbmcResults = <<>> THEN <<>>
    ELSE FindingsOf(Head(esbmcResults))
         \o convertMutIgnoresVerified(Tail(esbmcResults))

RECURSIVE convertToSARIFResults(_)
convertToSARIFResults(esbmcResults) ==
    IF esbmcResults = <<>> THEN <<>>
    ELSE (IF ~Head(esbmcResults).verified
          THEN FindingsOf(Head(esbmcResults)) ELSE <<>>)
         \o convertToSARIFResults(Tail(esbmcResults))

generateSARIF(esbmcResults) ==
    [version |-> "2.1.0",
     name |-> "ESBMC Clarity Formal Verification",
     rules |-> defineRules,
     results |-> convertToSARIFResults(esbmcResults)]

\* path.basename
Basename(file) ==
    CASE file = "contracts/a.clar" -> "a.clar"
      [] file = "contracts/b.clar" -> "b.clar"
      [] file = "contracts/sample.clar" -> "sample.clar"
      [] OTHER -> file

\* the two summary lines of one failure, and the empty line after them
FailureLines(failure) ==
    << <<"- **">> \o failure.title
         \o <<"** at line ",
              IF failure.lineNumber > 0 THEN ToString(failure.lineNumber)
              ELSE "unknown">>,
       <<"  '">> \o failure.failingCode \o <<"'">>,
       <<>> >>

RECURSIVE AllFailureLines(_)
AllFailureLines(failures) ==
    IF failures = <<>> THEN <<>>
    ELSE FailureLines(Head(failures)) \o AllFailureLines(Tail(failures))

\* the loop over the results in generateSummary
RECURSIVE FailedSections(_)
FailedSections(esbmcResults) ==
    IF esbmcResults = <<>> THEN <<>>
    ELSE LET result == Head(esbmcResults)
         IN (IF ~result.verified
             THEN << <<"### Function: '", result.functionName, "' in '",
                       Basename(result.clarityFile), "'">>, <<>> >>
                  \o AllFailureLines(result.failures)
             ELSE <<>>)
            \o FailedSections(Tail(esbmcResults))

SummaryHead(totalFunctions, verifiedFunctions, failedFunctions) ==
    << <<"# Clarity Smart Contract Verification Summary">>, <<>>,
       <<"- Total functions verified: ", ToString(totalFunctions)>>,
       <<"- Successfully verified: ", ToString(verifiedFunctions)>>,
       <<"- Verification failed: ", ToString(failedFunctions)>>, <<>> >>

generateSummaryMutOneIsFine(esbmcResults) ==
    LET totalFunctions == Len(esbmcResults)
        verifiedFunctions == Len(SelectSeq(esbmcResults, LAMBDA r : r.verified))
        failedFunctions == totalFunctions - verifiedFunctions
    IN SummaryHead(totalFunctions, verifiedFunctions, failedFunctions)
       \o (IF failedFunctions > 1
           THEN << <<"## Failed Verifications">>, <<>> >>
                \o FailedSections(esbmcResults)
           ELSE << <<"All functions were successfully verified!">> >>)

\* generateSummary: the lines of the text, each ended by "\n"
generateSummary(esbmcResults) ==
    LET totalFunctions == Len(esbmcResults)
        verifiedFunctions == Len(SelectSeq(esbmcResults, LAMBDA r : r.verified))
        failedFunctions == totalFunctions - verifiedFunctions
    IN SummaryHead(totalFunctions, verifiedFunctions, failedFunctions)
       \o (IF failedFunctions > 0
           THEN << <<"## Failed Verifications">>, <<>> >>
                \o FailedSections(esbmcResults)
           ELSE << <<"All functions were successfully verified!">> >>)

\* inputs: the results are pushed one by one; their failure records are the
\* ones a checker output or a container error can give
MaxSarifSize == 4
SarifTitles ==
    { <<"assertion">>, <<"arithmetic overflow">>, <<"arithmetic underflow">>,
      <<"division by zero">>, <<"execution-error">>, <<"heap-corruption">>,
      <<"unknown-result">>, <<"unknown-property">>, <<"constructor">> }
SarifFailures ==
    { [functionName |-> "deposit", lineNumber |-> 17, title |-> t,
       failingCode |-> <<"code">>] : t \in SarifTitles }
    \cup { [functionName |-> "unknown_function", lineNumber |-> n,
            title |-> <<"assertion">>, failingCode |-> <<"code">>] :
           n \in {UnknownLineNumber, 0} }
SarifFiles == {"contracts/a.clar", "contracts/b.clar"}

RECURSIVE SarifSize(_)
SarifSize(esbmcResults) ==
    IF esbmcResults = <<>> THEN 0
    ELSE 1 + Len(Head(esbmcResults).failures) + SarifSize(Tail(esbmcResults))

InitSarif ==
    /\ spc = "input" /\ sresults = <<>> /\ sreport = <<>> /\ ssummary = <<>>
    /\ PlanIdle /\ ParseIdle
    /\ ContractIdle /\ FailIdle /\ ListIdle /\ PublishIdle
    /\ OutIdle /\ DetIdle /\ RunIdle

\* a result is pushed to esbmcResults
PushResult ==
    /\ spc = "input" /\ SarifSize(sresults) < MaxSarifSize
    /\ \E v \in BOOLEAN, file \in SarifFiles :
         sresults' = Append(sresults,
                            [verified |-> v, failures |-> <<>>,
                             rawOutput |-> <<>>, clarityFile |-> file,
                             functionName |-> "deposit"])
    /\ UNCHANGED <<spc, sreport, ssummary, planVars, parseVars,
                   contractVars, failVars,
                   listVars, publishVars, outVars, detVars, runVars>>

\* the result pushed last has one more failure record
PushFailure ==
    /\ spc = "input" /\ sresults # <<>>
    /\ SarifSize(sresults) < MaxSarifSize
    /\ \E failure \in SarifFailures :
         sresults' = [sresults EXCEPT
                        ![Len(sresults)].failures = Append(@, failure)]
    /\ UNCHANGED <<spc, sreport, ssummary, planVars, parseVars,
                   contractVars, failVars,
                   listVars, publishVars, outVars, detVars, runVars>>

\* generateSARIF(esbmcResults) and generateSummary(esbmcResults)
GenerateReport ==
    /\ spc = "input"
    /\ sreport' = generateSARIF(sresults)
    /\ ssummary' = generateSummary(sresults)
    /\ spc' = "done"
    /\ UNCHANGED <<sresults, planVars, parseVars, contractVars, failVars,
                   listVars, publishVars, outVars, detVars, runVars>>

NextSarif == PushResult \/ PushFailure \/ GenerateReport

SpecSarif == InitSarif /\ [][NextSarif]_vars

(***************************************************************************)
(* Claims on the orchestrator that speak of the report (SpecRun).          *)
(***************************************************************************)
\* the change set is not empty, the AST step is over and no changed file has
\* an AST artifact
NoFileHasAst ==
    /\ rchanged # <<>>
    /\ rpc \notin {"detect", "ast", "astwait"}
    /\ \A k \in 1..Len(rgroups) : rgroups[k].file \notin rast

\* C37: when the change set is not empty and no changed file has an AST
\* artifact, the checker is never invoked and the results stay empty; the
\* report that is written has no finding, the status output is 'success' and
\* the workflow is not marked failed, with fail_on_issue true as well.
C37_NoAstAtAllIsSuccess ==
    NoFileHasAst =>
        /\ EsbmcStarted = <<>>
        /\ rresults = <<>>
        /\ routputs.sarif_report # "" =>
             /\ routputs.sarif_report = "results.sarif"
             /\ generateSARIF(rresults).results = <<>>
             /\ ~rfailed
        /\ StatusStepDone =>
             /\ routputs.verification_status = "success"
             /\ setWorkflowStatus(rresults, rconfig.failOnIssue) = "info"
             /\ ~rfailed

\* a completed run on two changed files, both without artifact, with
\* fail_on_issue true
C37_Witness ==
    /\ StatusStepDone /\ NoFileHasAst
    /\ Len(rgroups) = 2
    /\ AstFailedFor(rgroups[1].file) /\ AstFailedFor(rgroups[2].file)
    /\ rconfig.failOnIssue
    /\ rresults = <<>>
    /\ routputs.verification_status = "success" /\ ~rfailed

(***************************************************************************)
(* Claims on the report generator (SpecSarif).                             *)
(***************************************************************************)
\* the failure records of the results with verified = false, in result order
\* then failure order, each with the file of its result
RECURSIVE FailuresToReport(_)
FailuresToReport(results) ==
    IF results = <<>> THEN <<>>
    ELSE LET r == Head(results)
         IN (IF r.verified = FALSE
             THEN [k \in 1..Len(r.failures) |->
                     [file |-> r.clarityFile, failure |-> r.failures[k]]]
             ELSE <<>>) \o FailuresToReport(Tail(results))

RECURSIVE SumOfFailureCounts(_)
SumOfFailureCounts(results) ==
    IF results = <<>> THEN 0
    ELSE (IF Head(results).verified THEN 0 ELSE Len(Head(results).failures))
         + SumOfFailureCounts(Tail(results))

SarifDone == spc = "done"
Findings == sreport.results

\* C16: the findings are one per failure record of each result with
\* verified = false, in result order then failure order, each with the file
\* of its result; verified results give no finding; the number of findings
\* is the sum of the failure counts of the non-verified results.
C16_OneFindingPerFailure ==
    SarifDone =>
        LET expected == FailuresToReport(sresults)
        IN /\ Len(Findings) = Len(expected)
           /\ Len(Findings) = SumOfFailureCounts(sresults)
           /\ \A k \in 1..Len(expected) :
                /\ Findings[k].uri = expected[k].file
                /\ Findings[k].message =
                     <<"Verification failed in function '",
                       expected[k].failure.functionName, "': ">>
                       \o expected[k].failure.failingCode

\* two non-verified results of different files with one failure each, of
\* different titles, and a verified result
C16_Witness ==
    /\ SarifDone
    /\ Len(sresults) = 2 /\ Len(Findings) = 2
    /\ ~sresults[1].verified /\ ~sresults[2].verified
    /\ Findings[1].uri # Findings[2].uri
    /\ Findings[1].ruleId # Findings[2].ruleId

NamedCategory(title) ==
    CASE title = <<"assertion">> -> "clarity-verify-assertion"
      [] title = <<"arithmetic overflow">> -> "clarity-verify-overflow"
      [] title = <<"arithmetic underflow">> -> "clarity-verify-underflow"
      [] title = <<"division by zero">> -> "clarity-verify-division-by-zero"
      [] title = <<"execution-error">> -> "clarity-verify-execution-error"
      [] OTHER -> "clarity-verify-unknown-error"

\* C17 (as stated): the five titles of the table map to their own category
\* and every other title maps to the catch-all unknown-error category.
C17_TitleTableAsStated ==
    SarifDone =>
        LET expected == FailuresToReport(sresults)
        IN \A k \in 1..Len(Findings) :
             Findings[k].ruleId = NamedCategory(expected[k].failure.title)

\* what holds: the claim for every title that is not the name of a member of
\* Object.prototype
C17_TitleTableOwnKeys ==
    SarifDone =>
        LET expected == FailuresToReport(sresults)
        IN \A k \in 1..Len(Findings) :
             expected[k].failure.title \notin ObjectPrototypeKeys =>
                Findings[k].ruleId = NamedCategory(expected[k].failure.title)

\* the ids of the rules the report declares
DeclaredRuleIds(report) == { report.rules[k] : k \in 1..Len(report.rules) }

\* C36 (as stated): in every generated report the category id of every
\* finding is one of the six rule ids the report declares, whatever the
\* titles of the failures are.
C36_RuleIdsDeclaredAsStated ==
    SarifDone =>
        \A k \in 1..Len(Findings) :
            Findings[k].ruleId \in DeclaredRuleIds(sreport)

\* what holds: the claim for the findings of the failures whose title is not
\* the name of a member of Object.prototype
C36_RuleIdsDeclaredOwnKeys ==
    SarifDone =>
        LET expected == FailuresToReport(sresults)
        IN /\ Cardinality(DeclaredRuleIds(sreport)) = 6
           /\ \A k \in 1..Len(Findings) :
                expected[k].failure.title \notin ObjectPrototypeKeys =>
                   Findings[k].ruleId \in DeclaredRuleIds(sreport)

\* C18: the line of every finding is at least 1: the lineNumber of the
\* failure when that is greater than 0, and 1 otherwise.
C18_LineAtLeastOne ==
    SarifDone =>
        LET expected == FailuresToReport(sresults)
        IN \A k \in 1..Len(Findings) :
             /\ Findings[k].startLine >= 1
             /\ Findings[k].startLine =
                  IF expected[k].failure.lineNumber > 0
                  THEN expected[k].failure.lineNumber ELSE 1

\* findings for the line numbers -1, 0 and 17
C18_Witness ==
    /\ SarifDone
    /\ Len(Findings) = 3
    /\ \E i, j, k \in 1..3 :
         /\ sresults[1].failures[i].lineNumber = -1 /\ Findings[i].startLine = 1
         /\ sresults[1].failures[j].lineNumber = 0 /\ Findings[j].startLine = 1
         /\ sresults[1].failures[k].lineNumber = 17 /\ Findings[k].startLine = 17

\* reading the summary back
CountLine(label) ==
    LET found == SelectSeq(ssummary, LAMBDA l : l # <<>> /\ l[1] = label)
    IN IF Len(found) = 1 THEN found[1][2] ELSE "?"
StatesFullSuccess ==
    \E i \in 1..Len(ssummary) :
        ssummary[i] # <<>> /\ ssummary[i][1] = "All functions were successfully verified!"
IsSectionLine(l) == l # <<>> /\ l[1] = "### Function: '"
IsEntryLine(l) == l # <<>> /\ l[1] = "- **"
\* the section and entry lines of the summary, in order
ListedMarks ==
    LET kept == SelectSeq(ssummary, LAMBDA l : IsSectionLine(l) \/ IsEntryLine(l))
    IN [i \in 1..Len(kept) |->
          IF IsSectionLine(kept[i]) THEN <<"section", kept[i][2], kept[i][4]>>
          ELSE <<"entry">> \o SubSeq(kept[i], 2, Len(kept[i]) - 2)]
RECURSIVE ExpectedMarks(_)
ExpectedMarks(results) ==
    IF results = <<>> THEN <<>>
    ELSE LET r == Head(results)
         IN (IF r.verified = FALSE
             THEN << <<"section", r.functionName, Basename(r.clarityFile)>> >>
                  \o [k \in 1..Len(r.failures) |-> <<"entry">> \o r.failures[k].title]
             ELSE <<>>) \o ExpectedMarks(Tail(results))
NumberOf(results, verified) ==
    Cardinality({k \in 1..Len(results) : results[k].verified = verified})

\* C19: the counts of the summary are total = verified + failed, failed being
\* the number of results with verified = false; the summary states full
\* success exactly when failed is zero, and otherwise lists every
\* non-verified result with one entry per failure record.
C19_SummaryCounts ==
    SarifDone =>
        /\ CountLine("- Total functions verified: ") = ToString(Len(sresults))
        /\ CountLine("- Successfully verified: ") = ToString(NumberOf(sresults, TRUE))
        /\ CountLine("- Verification failed: ") = ToString(NumberOf(sresults, FALSE))
        /\ Len(sresults) = NumberOf(sresults, TRUE) + NumberOf(sresults, FALSE)
        /\ StatesFullSuccess <=> NumberOf(sresults, FALSE) = 0
        /\ ListedMarks = ExpectedMarks(sresults)

\* a verified result and a non-verified one with two failures
C19_Witness ==
    /\ SarifDone
    /\ Len(sresults) = 2
    /\ sresults[1].verified /\ ~sresults[2].verified
    /\ Len(sresults[2].failures) = 2
    /\ ~StatesFullSuccess
    /\ Len(ListedMarks) = 3


(***************************************************************************)
(* SpecPlan: job planning, groupFunctionsByFile and the job loop of run()   *)
(* on any sequence of changed functions.                                   *)
(***************************************************************************)
ChangeTypes == {"added", "modified", "deleted"}
PlanRecords == [file : RunFiles, name : RunNames, changeType : ChangeTypes]
PlanChangeSets == UNION { [1..n -> PlanRecords] : n \in 0..MaxChanged }

InitPlan ==
    /\ ppc = "input" /\ pchanged \in PlanChangeSets
    /\ past = {} /\ pjobs = <<>>
    /\ SarifIdle /\ ParseIdle
    /\ ContractIdle /\ FailIdle /\ ListIdle /\ PublishIdle
    /\ OutIdle /\ DetIdle /\ RunIdle

\* groupFunctionsByFile, generateASTs (some files get an artifact), job loop
PlanJobs ==
    /\ ppc = "input"
    /\ \E astFiles \in SUBSET RunFiles :
         /\ past' = astFiles
         /\ pjobs' = JobsOf(groupFunctionsByFile(pchanged), astFiles)
    /\ ppc' = "done"
    /\ UNCHANGED <<pchanged, sarifVars, parseVars, contractVars, failVars,
                   listVars, publishVars, outVars, detVars, runVars>>

NextPlan == PlanJobs

SpecPlan == InitPlan /\ [][NextPlan]_vars

(***************************************************************************)
(* Claims on job planning (SpecPlan).                                      *)
(***************************************************************************)
\* the files of a change set, each once, in the order of first appearance
RECURSIVE FilesByFirstAppearance(_, _)
FilesByFirstAppearance(changed, seen) ==
    IF changed = <<>> THEN <<>>
    ELSE IF Head(changed).file \in seen
    THEN FilesByFirstAppearance(Tail(changed), seen)
    ELSE <<Head(changed).file>>
         \o FilesByFirstAppearance(Tail(changed), seen \cup {Head(changed).file})

\* for the files in the given order: the records of the file, in their order
\* in the change set, when the file has an artifact
RECURSIVE JobsInFileOrder(_, _, _)
JobsInFileOrder(files, changed, astFiles) ==
    IF files = <<>> THEN <<>>
    ELSE LET ofFile == SelectSeq(changed, LAMBDA c : c.file = Head(files))
         IN (IF Head(files) \in astFiles
             THEN [k \in 1..Len(ofFile) |->
                     [file |-> ofFile[k].file, fn |-> ofFile[k].name]]
             ELSE <<>>) \o JobsInFileOrder(Tail(files), changed, astFiles)

\* C14: one job per changed-function record of each file that has an AST
\* artifact, whatever the change type; the jobs are ordered by the first
\* appearance of the file in the change set, then by the order of the
\* functions within the file.
C14_OneJobPerRecord ==
    ppc = "done" =>
        /\ pjobs = JobsInFileOrder(FilesByFirstAppearance(pchanged, {}),
                                   pchanged, past)
        /\ Len(pjobs) = Len(SelectSeq(pchanged, LAMBDA c : c.file \in past))

\* a change set a, b, a with a deleted record, both files with an artifact:
\* the second job is the third record
C14_Witness ==
    /\ ppc = "done" /\ past = RunFiles
    /\ Len(pchanged) = 3 /\ Len(pjobs) = 3
    /\ pchanged[1].file = pchanged[3].file
    /\ pchanged[1].file # pchanged[2].file
    /\ pchanged[1].name # pchanged[3].name
    /\ pchanged[3].changeType = "deleted"
    /\ pjobs[2] = [file |-> pchanged[3].file, fn |-> pchanged[3].name]
    /\ pjobs[3] = [file |-> pchanged[2].file, fn |-> pchanged[2].name]


(***************************************************************************)
(* SpecParse: successive calls of parseClarityFunctions.                   *)
(***************************************************************************)
MaxCalls == 3
\* a content that ends inside a function: (define-read-only (b (n))
OpenContent ==
    << <<"(", "define-read-only", "SP", "(", "b", "SP", "(", "n", ")", ")">> >>
ParseFiles == {"contracts/a.clar", "contracts/b.clar"}

InitParse ==
    /\ qpc = "input" /\ qcontent \in Contents /\ qcalls = <<>>
    /\ SarifIdle /\ PlanIdle
    /\ ContractIdle /\ FailIdle /\ ListIdle /\ PublishIdle
    /\ OutIdle /\ DetIdle /\ RunIdle

\* one more call, on the content under observation or on the open content
CallParse ==
    /\ Len(qcalls) < MaxCalls
    /\ \E content \in {qcontent, OpenContent}, filePath \in ParseFiles :
         qcalls' = Append(qcalls,
                          [content |-> content, file |-> filePath,
                           value |-> parseClarityFunctions(content, filePath)])
    /\ qpc' = "calling"
    /\ UNCHANGED <<qcontent, sarifVars, planVars, contractVars, failVars,
                   listVars, publishVars, outVars, detVars, runVars>>

NextParse == CallParse

SpecParse == InitParse /\ [][NextParse]_vars

MaxEdits == 1

\* sample.clar, content.split("\n"): its 31 lines and the empty string after
\* the last line break
SampleContract ==
   <<
      \* line 1
      <<";;", "SP", "Define", "SP", "the", "SP", "contract's", "SP",
        "data", "SP", "variables">>,
      \* line 2
      <<>>,
      \* line 3
      <<";;", "SP", "Maps", "SP", "a", "SP", "user's", "SP", "principal",
        "SP", "address", "SP", "to", "SP", "their", "SP", "deposited",
        "SP", "amount.">>,
      \* line 4
      <<"(", "define-map", "SP", "deposits", "SP", "{", "SP", "owner:",
        "SP", "principal", "SP", "}", "SP", "{", "SP", "amount:", "SP",
        "uint", "SP", "}", ")">>,
      \* line 5
      <<>>,
      \* line 6
      <<";;", "SP", "Holds", "SP", "the", "SP", "total", "SP", "amount",
        "SP", "of", "SP", "deposits", "SP", "in", "SP", "the", "SP",
        "contract,", "SP", "initialized", "SP", "to", "SP", "0.">>,
      \* line 7
      <<"(", "define-data-var", "SP", "total-deposits", "SP", "uint",
        "SP", "u0", ")">>,
      \* line 8
      <<>>,
      \* line 9
      <<";;", "SP", "Public", "SP", "function", "SP", "for", "SP",
        "users", "SP", "to", "SP", "deposit", "SP", "STX", "SP", "into",
        "SP", "the", "SP", "contract.">>,
      \* line 10
      <<>>,
      \* line 11
      <<";;", "SP", "Updates", "SP", "their", "SP", "balance", "SP",
        "and", "SP", "the", "SP", "total", "SP", "deposits", "SP", "in",
        "SP", "the", "SP", "contract.">>,
      \* line 12
      <<"(", "define-public", "SP", "(", "deposit", "SP", "(", "amount",
        "SP", "uint", ")", ")">>,
      \* line 13
      <<"SP", "(", "let", "SP", "(">>,
      \* line 14
      <<"SP", ";;", "SP", "Fetch", "SP", "the", "SP", "current", "SP",
        "balance", "SP", "or", "SP", "default", "SP", "to", "SP", "0",
        "SP", "if", "SP", "none", "SP", "exists.">>,
      \* line 15
      <<"SP", "(", "current-balance", "SP", "(", "default-to", "SP", "u0",
        "SP", "(", "get", "SP", "amount", "SP", "(", "map-get?", "SP",
        "deposits", "SP", "{", "SP", "owner:", "SP", "tx-sender", "SP",
        "}", ")", ")", ")", ")", ")">>,
      \* line 16
      <<"SP", ";;", "SP", "Transfer", "SP", "the", "SP", "STX", "SP",
        "from", "SP", "sender", "SP", "=", "SP",
        "\"ST1PQHQKV0RJXZFY1DGX8MNSNYVE3VGZJSRTPGZGM\"", "SP", "to", "SP",
        "recipient", "SP", "=", "SP",
        "\"ST1PQHQKV0RJXZFY1DGX8MNSNYVE3VGZJSRTPGZGM.stx-defi", "SP", "(",
        "ie:", "SP", "contract", "SP", "identifier", "SP", "on", "SP",
        "the", "SP", "chain!", ")", "\".">>,
      \* line 17
      <<"SP", "(", "try!", "SP", "(", "stx-transfer?", "SP", "amount",
        "SP", "tx-sender", "SP", "(", "as-contract", "SP", "tx-sender",
        ")", ")", ")", "SP", ";;", "SP", "Modified", "SP", "line">>,
      \* line 18
      <<"SP", ";;", "SP", "Update", "SP", "the", "SP", "user's", "SP",
        "deposit", "SP", "amount", "SP", "in", "SP", "the", "SP", "map.">>,
      \* line 19
      <<"SP", "(", "map-set", "SP", "deposits", "SP", "{", "SP", "owner:",
        "SP", "tx-sender", "SP", "}", "SP", "{", "SP", "amount:", "SP",
        "(", "+", "SP", "current-balance", "SP", "amount", ")", "SP", "}",
        ")">>,
      \* line 20
      <<"SP", ";;", "SP", "Update", "SP", "the", "SP", "total", "SP",
        "deposits", "SP", "variable.">>,
      \* line 21
      <<"SP", "(", "var-set", "SP", "total-deposits", "SP", "(", "+",
        "SP", "(", "var-get", "SP", "total-deposits", ")", "SP", "amount",
        ")", ")">>,
      \* line 22
      <<"SP", ";;", "SP", "Return", "SP", "success.">>,
      \* line 23
      <<"SP", "(", "ok", "SP", "true", ")">>,
      \* line 24
      <<"SP", ")">>,
      \* line 25
      <<")">>,
      \* line 26
      <<>>,
      \* line 27
      <<";;", "SP", "Read-only", "SP", "function", "SP", "to", "SP",
        "get", "SP", "the", "SP", "total", "SP", "balance">>,
      \* line 28
      <<"(", "define-read-only", "SP", "(", "get-balance", ")", "SP",
        ";;", "SP", "Modified", "SP", "function">>,
      \* line 29
      <<"SP", "(", "ok", "SP", "(", "var-get", "SP", "total-deposits",
        ")", ")">>,
      \* line 30
      <<")">>,
      \* line 31
      <<>>,
      \* line 32
      <<>>
   >>

\* the line of the sample contract that holds the try! expression
TryLineNumber == 17

\* the try! line as another revision writes it
TryLines ==
    { <<"SP", "(", "try!", "SP", "(", "stx-transfer?", "SP", "amount",
        "SP", "tx-sender", "SP", "(", "as-contract", "SP", "tx-sender",
        ")", ")", ")">>,
      <<"SP", "(", "try!", "SP", "(", "stx-transfer?", "SP", "u1",
        "SP", "tx-sender", "SP", "(", "as-contract", "SP", "tx-sender",
        ")", ")", ")">> }

\* the lines a head revision may replace: the blank line before the comment
\* of 'deposit' and every line after it
EditableLines == 10..Len(SampleContract)

\* the lines a head revision puts in place of a line of the base
EditLines ==
    TryLines \cup
    { <<>>,
      \* x (define-private (b) x) y
      <<"x", "SP", "(", "define-private", "SP", "(", "b", ")", "SP", "x", ")",
        "SP", "y">>,
      <<")">> }

InitContract ==
    /\ cpc = "edit" /\ cedits = 0
    /\ cbase = SampleContract /\ chead = SampleContract
    /\ cbaseFunctions = <<>> /\ cheadFunctions = <<>>
    /\ cchanges = <<>> /\ cjobs = <<>>
    /\ SarifIdle /\ PlanIdle /\ ParseIdle /\ FailIdle /\ ListIdle /\ PublishIdle
    /\ OutIdle /\ DetIdle /\ RunIdle

\* the head revision replaces one more line of the file
EditLine ==
    /\ cpc = "edit" /\ cedits < MaxEdits
    /\ \E l \in EditableLines, r \in EditLines :
         /\ chead[l] # r
         /\ chead' = [chead EXCEPT ![l] = r]
    /\ cedits' = cedits + 1
    /\ UNCHANGED <<cpc, cbase, cbaseFunctions, cheadFunctions, cchanges, cjobs,
                   sarifVars, planVars, parseVars, failVars,
                   listVars, publishVars, outVars, detVars, runVars>>

\* detectChangedFunctions on the file: the body of the file loop, each
\* content parsed once
Detect ==
    /\ cpc = "edit"
    /\ cbaseFunctions' = parseClarityFunctions(cbase, DetFile)
    /\ cheadFunctions' = parseClarityFunctions(chead, DetFile)
    /\ cchanges' =
         IF cbase = EmptyString
         THEN MapChangeType(cheadFunctions', "added")
         ELSE IF chead = EmptyString
         THEN MapChangeType(cbaseFunctions', "deleted")
         ELSE compareAndIdentifyChanges(cbaseFunctions', cheadFunctions')
    /\ cpc' = "plan"
    /\ UNCHANGED <<cedits, cbase, chead, cjobs,
                   sarifVars, planVars, parseVars, failVars,
                   listVars, publishVars, outVars, detVars, runVars>>

\* groupFunctionsByFile, generateASTs (the file gets an artifact or not), job
\* loop
PlanContractJobs ==
    /\ cpc = "plan"
    /\ \E astFiles \in SUBSET {DetFile} :
         cjobs' = JobsOf(groupFunctionsByFile(cchanges), astFiles)
    /\ cpc' = "done"
    /\ UNCHANGED <<cedits, cbase, chead, cbaseFunctions, cheadFunctions,
                   cchanges, sarifVars, planVars, parseVars, failVars,
                   listVars, publishVars, outVars, detVars, runVars>>

NextContract == EditLine \/ Detect \/ PlanContractJobs

SpecContract == InitContract /\ [][NextContract]_vars


(***************************************************************************)
(* Claims on the function-boundary parser and the sample contract          *)
(* (SpecContract).                                                         *)
(***************************************************************************)
\* the parentheses a line opens less those it closes, from token `from` on
NetParens(line, from) ==
    Cardinality({k \in from..Len(line) : line[k] = "("})
      - Cardinality({k \in from..Len(line) : line[k] = ")"})

IsHeaderLine(lines, l) == HeaderMatch(lines[l]) # <<>>

\* the first line from l on at whose end the depth is 0, 0 when there is
\* none; depth is the depth at the end of line l
RECURSIVE ClosingScan(_, _, _)
ClosingScan(lines, l, depth) ==
    IF depth = 0 THEN l
    ELSE IF l >= Len(lines) THEN 0
    ELSE ClosingScan(lines, l + 1, depth + NetParens(lines[l + 1], 1))

\* the closing line of the function whose header is on line s: the depth is
\* 1 at the header match and every parenthesis after it counts
ClosingLine(lines, s) ==
    ClosingScan(lines, s, 1 + NetParens(lines[s], HeaderMatch(lines[s])[1] + 1))

\* the top-level definitions from line i on, as [start, end]: a header line
\* opens one, the next one can open only after its closing line; end is 0
\* for a definition the file leaves open
RECURSIVE TopLevelFrom(_, _)
TopLevelFrom(lines, i) ==
    IF i > Len(lines) THEN <<>>
    ELSE IF ~IsHeaderLine(lines, i) THEN TopLevelFrom(lines, i + 1)
    ELSE LET c == ClosingLine(lines, i)
         IN IF c = 0 THEN << [start |-> i, end |-> 0] >>
            ELSE << [start |-> i, end |-> c] >> \o TopLevelFrom(lines, c + 1)

\* line h lies after the header of a top-level definition that is still open
OpenAt(lines, h) ==
    LET tl == TopLevelFrom(lines, 1)
    IN \E k \in 1..Len(tl) :
         tl[k].start < h /\ (tl[k].end = 0 \/ h <= tl[k].end)

Parsed == cpc # "edit"

SourceOrdered(functions) ==
    \A k \in 1..(Len(functions) - 1) :
        /\ functions[k].startLine <= functions[k].endLine
        /\ functions[k].endLine < functions[k + 1].startLine

TopLevelOnly(lines, functions) ==
    \A k \in 1..Len(functions) :
        /\ IsHeaderLine(lines, functions[k].startLine)
        /\ ~OpenAt(lines, functions[k].startLine)

\* C21: the functions parseClarityFunctions returns are in source order and
\* their spans do not overlap (for consecutive functions f and g,
\* f.endLine < g.startLine); each starts on a definition-header line, and a
\* header line met while a function is still open starts no function.
C21_TopLevelInSourceOrder ==
    Parsed =>
      /\ SourceOrdered(cbaseFunctions) /\ TopLevelOnly(cbase, cbaseFunctions)
      /\ SourceOrdered(cheadFunctions) /\ TopLevelOnly(chead, cheadFunctions)

\* a head revision with a header line inside 'deposit': two functions are
\* returned, none of them the one that header names
C21_Witness ==
    /\ Parsed
    /\ \E h \in 1..Len(chead) : IsHeaderLine(chead, h) /\ OpenAt(chead, h)
    /\ Len(cheadFunctions) = 2
    /\ cheadFunctions[1].name = <<"deposit">>
    /\ cheadFunctions[2].name = <<"get-balance">>

\* the head revision differs from the base only in the try! line
OnlyTryLineDiffers ==
    /\ cbase = SampleContract
    /\ chead # cbase
    /\ chead[TryLineNumber] \in TryLines
    /\ chead = [cbase EXCEPT ![TryLineNumber] = chead[TryLineNumber]]

\* C22: on the sample contract, when base and head differ only in the try!
\* line inside 'deposit', detection yields exactly one changed function,
\* 'deposit' as modified, and the job loop makes no job for 'get-balance'.
C22_SampleContractEndToEnd ==
    (Parsed /\ OnlyTryLineDiffers) =>
      /\ Len(cchanges) = 1
      /\ cchanges[1].name = <<"deposit">>
      /\ cchanges[1].changeType = "modified"
      /\ \A k \in 1..Len(cjobs) : cjobs[k].fn # <<"get-balance">>

C22_Witness ==
    /\ cpc = "done" /\ OnlyTryLineDiffers
    /\ Len(cjobs) = 1 /\ cjobs[1].fn = <<"deposit">>
    /\ Len(cbaseFunctions) = 2 /\ Len(cheadFunctions) = 2
    /\ cbaseFunctions[2] = cheadFunctions[2]

\* every returned function spans its header line through the first line at
\* whose end the depth is 0, and every top-level definition that closes is
\* returned
SpansAsCounted(lines, functions) ==
    /\ \A k \in 1..Len(functions) :
         LET f == functions[k]
         IN /\ IsHeaderLine(lines, f.startLine)
            /\ f.endLine # 0
            /\ f.endLine = ClosingLine(lines, f.startLine)
            /\ f.content = SubSeq(lines, f.startLine, f.endLine)
    /\ LET tl == TopLevelFrom(lines, 1)
       IN {<<tl[k].start, tl[k].end>> : k \in {j \in 1..Len(tl) : tl[j].end # 0}}
            = {<<functions[k].startLine, functions[k].endLine>> : k \in 1..Len(functions)}

EndsOpen(lines) ==
    LET tl == TopLevelFrom(lines, 1)
    IN tl # <<>> /\ tl[Len(tl)].end = 0

\* C25: when the depth never returns to zero before the end of the file, the
\* parser raises no exception and consumes the remainder of the file into
\* one function: the last function returned starts at the open header and
\* holds every line from there to the end of the file.
C25_UnclosedConsumedAsStated ==
    (Parsed /\ EndsOpen(chead)) =>
      LET tl == TopLevelFrom(chead, 1)
          s == tl[Len(tl)].start
      IN /\ cheadFunctions # <<>>
         /\ cheadFunctions[Len(cheadFunctions)].startLine = s
         /\ cheadFunctions[Len(cheadFunctions)].endLine = Len(chead)
         /\ cheadFunctions[Len(cheadFunctions)].content
              = SubSeq(chead, s, Len(chead))

\* the header line of the definition the file leaves open
OpenStart(lines) ==
    LET tl == TopLevelFrom(lines, 1) IN tl[Len(tl)].start

\* C31: a function is returned only when a line ends at depth 0; a function
\* still open at the end of the input is not returned and no header after
\* its header line is recognized: the output is exactly the functions closed
\* before it.
C31_OpenFunctionNotReturned ==
    Parsed =>
      LET tl == TopLevelFrom(chead, 1)
      IN (tl # <<>> /\ tl[Len(tl)].end = 0) =>
           /\ Len(cheadFunctions) = Len(tl) - 1
           /\ \A k \in 1..Len(cheadFunctions) :
                /\ cheadFunctions[k].startLine = tl[k].start
                /\ cheadFunctions[k].endLine = tl[k].end
                /\ cheadFunctions[k].endLine < tl[Len(tl)].start

\* 'deposit' is left open by the head revision: neither it nor 'get-balance',
\* whose header follows, is returned
C31_Witness ==
    /\ Parsed /\ EndsOpen(chead)
    /\ OpenStart(chead) = 12
    /\ \E h \in 13..Len(chead) : IsHeaderLine(chead, h)
    /\ Len(cbaseFunctions) = 2
    /\ cheadFunctions = <<>>

\* the lines of a content joined by line breaks hold Len - 1 line breaks
LineBreaks(content) == Len(content) - 1

\* C32: every returned function has 1 <= startLine <= endLine <= number of
\* input lines, and its content is the whole input lines startLine through
\* endLine joined by line breaks (endLine - startLine line breaks), the text
\* before the header match and after the closing parenthesis included.
C32_ContentIsWholeLines ==
    Parsed =>
      \A k \in 1..Len(cheadFunctions) :
        LET f == cheadFunctions[k]
        IN /\ 1 <= f.startLine /\ f.startLine <= f.endLine
           /\ f.endLine <= Len(chead)
           /\ f.content = [l \in 1..(f.endLine - f.startLine + 1) |->
                             chead[f.startLine + l - 1]]
           /\ LineBreaks(f.content) = f.endLine - f.startLine

\* a one-line function with text before its header and after its closing
\* parenthesis, and 'deposit' on its fourteen lines
C32_Witness ==
    /\ Parsed
    /\ Len(cheadFunctions) = 3
    /\ cheadFunctions[1].name = <<"b">>
    /\ cheadFunctions[1].startLine = cheadFunctions[1].endLine
    /\ Head(cheadFunctions[1].content[1]) = "x"
    /\ cheadFunctions[1].content[1][Len(cheadFunctions[1].content[1])] = "y"
    /\ cheadFunctions[2].name = <<"deposit">>
    /\ LineBreaks(cheadFunctions[2].content) = 13

(***************************************************************************)
(* SpecFail: parseFailingFunctions on a checker output.                    *)
(***************************************************************************)
MaxFailLines == 5
MaxSurround == 1

\* the lines of the short outputs: a blank line, the marker (indented), a
\* line that holds the marker and more, the two State lines, the trigger and
\* a line of plain text
FailLines ==
    { <<"SP">>,
      <<"SP", "[Counterexample]", "SP">>,
      <<"[Counterexample]", "SP", "x">>,
      <<"State@17:deposit">>,
      <<"SP", "State@5:withdraw">>,
      <<"Violated property:">>,
      <<"assertion">> }

ShortTexts == UNION { [1..n -> FailLines] : n \in 1..MaxFailLines }

\* the failing code line of the sample block, indented as the checker prints
\* it
SampleCodeLine ==
    <<"SP", "try!", "SP", "(stx-transfer? amount tx-sender (as-contract tx-sender))">>

\* the counterexample block of the sample contract
SampleBlock ==
    << <<"[Counterexample]">>,
       <<"State@17:deposit">>,
       <<"Violated property:">>,
       <<>>,
       <<"assertion">>,
       <<>>,
       SampleCodeLine >>

\* a block without a State line, and a block with two
BareBlock ==
    << <<"[Counterexample]">>,
       <<"Violated property:">>,
       <<"arithmetic overflow">>,
       <<"SP", "(+ a b)">> >>

TwoStateBlock ==
    << <<"[Counterexample]">>,
       <<"State@17:deposit">>,
       <<"State@5:withdraw">>,
       <<"Violated property:">>,
       <<"division by zero">>,
       <<"SP", "(/ a b)">> >>

Blocks == {SampleBlock, BareBlock, TwoStateBlock}

\* lines that are no marker, State line or trigger
UnrelatedLines == { <<>>, <<"VERIFICATION FAILED">>, <<"assertion">> }

\* what the checker may print between two blocks
BetweenLines ==
    UnrelatedLines \cup { <<"State@5:withdraw">>, <<"Violated property:">> }

Surround(lineSet) == UNION { [1..n -> lineSet] : n \in 0..MaxSurround }

\* outputs that hold one block or two, with lines around them and at most
\* one line between them
BlockTexts ==
    { pre \o b1 \o mid \o b2 \o post :
        pre \in Surround(UnrelatedLines), b1 \in Blocks,
        mid \in {<<>>} \cup {<<l>> : l \in BetweenLines},
        b2 \in Blocks \cup {<<>>},
        post \in Surround(UnrelatedLines) }

FailTexts == ShortTexts \cup BlockTexts

InitFail ==
    /\ fpc = "input" /\ ftext \in FailTexts /\ ffailures = <<>>
    /\ SarifIdle /\ PlanIdle /\ ParseIdle /\ ContractIdle /\ ListIdle /\ PublishIdle
    /\ OutIdle /\ DetIdle /\ RunIdle

\* parseFailingFunctions(clarOutput)
ParseFailures ==
    /\ fpc = "input"
    /\ ffailures' = parseFailingFunctions(ftext)
    /\ fpc' = "done"
    /\ UNCHANGED <<ftext, sarifVars, planVars, parseVars, contractVars,
                   listVars, publishVars, outVars, detVars, runVars>>

NextFail == ParseFailures

SpecFail == InitFail /\ [][NextFail]_vars

(***************************************************************************)
(* Claims on parseFailingFunctions (SpecFail).                             *)
(***************************************************************************)
IsBlankLine(lines, i) == \A k \in 1..Len(lines[i]) : lines[i][k] = "SP"
IsMarkerLine(lines, i) == Trim(lines[i]) = <<"[Counterexample]">>
StateTokensOf(lines, i) == {k \in 1..Len(lines[i]) : lines[i][k] \in StateTokens}
IsStateLine(lines, i) == StateTokensOf(lines, i) # {}
\* a line that begins with 'Violated property:' (a State line is read as a
\* State line)
IsTriggerLine(lines, i) ==
    /\ ~IsStateLine(lines, i)
    /\ Trim(lines[i]) # <<>> /\ Trim(lines[i])[1] = "Violated property:"

\* the least element of a set of line numbers, 0 for the empty set
FirstOf(S) == IF S = {} THEN 0 ELSE CHOOSE i \in S : \A m \in S : i <= m
LastOf(S) == IF S = {} THEN 0 ELSE CHOOSE i \in S : \A m \in S : m <= i

\* The counterexample blocks of a text from line `from` on, as the state
\* machine delimits them: a block opens at the first marker line, its trigger
\* is the first trigger line after the marker, its title the first non-blank
\* line after the trigger and its code the first non-blank line after the
\* title (0 when the text ends before); the next block is looked for after
\* the code line.
RECURSIVE BlocksFrom(_, _)
BlocksFrom(lines, from) ==
    LET m == FirstOf({i \in from..Len(lines) : IsMarkerLine(lines, i)})
        j == FirstOf({i \in (m + 1)..Len(lines) : IsTriggerLine(lines, i)})
        t == FirstOf({i \in (j + 1)..Len(lines) : ~IsBlankLine(lines, i)})
        c == IF t = 0 THEN 0
             ELSE FirstOf({i \in (t + 1)..Len(lines) : ~IsBlankLine(lines, i)})
    IN IF m = 0 \/ j = 0 THEN <<>>
       ELSE << [marker |-> m, trigger |-> j, title |-> t, code |-> c] >>
              \o (IF c = 0 THEN <<>> ELSE BlocksFrom(lines, c + 1))

BlocksOf(lines) == BlocksFrom(lines, 1)

FailuresReturned == fpc = "done"

\* the text is the sample block with unrelated lines before and after it
IsSampleBlockSurrounded ==
    \E pre \in Surround(UnrelatedLines), post \in Surround(UnrelatedLines) :
        ftext = pre \o SampleBlock \o post

\* C23: the sample block ('[Counterexample]', the State line of line 17 in
\* deposit, 'Violated property:', blank, 'assertion', blank, the failing code
\* line) yields exactly one record: functionName 'deposit', lineNumber 17,
\* title 'assertion', failingCode the code line trimmed; whatever unrelated
\* lines surround the block.
C23_SampleBlockOneRecord ==
    (FailuresReturned /\ IsSampleBlockSurrounded) =>
      ffailures = << [functionName |-> "deposit",
                      lineNumber   |-> 17,
                      title        |-> <<"assertion">>,
                      failingCode  |-> Trim(SampleCodeLine)] >>

C23_Witness ==
    /\ FailuresReturned
    /\ ftext = << <<"VERIFICATION FAILED">> >> \o SampleBlock \o << <<"assertion">> >>
    /\ Len(ffailures) = 1
    /\ ffailures[1].failingCode = Tail(SampleCodeLine)

MarkerLines(lines) == {i \in 1..Len(lines) : IsMarkerLine(lines, i)}
TriggerLines(lines) == {i \in 1..Len(lines) : IsTriggerLine(lines, i)}

\* C26: scanning starts outside a block; a block is entered only on a line
\* that is exactly '[Counterexample]' after trimming and left as soon as one
\* record is emitted; State and 'Violated property:' lines outside a block
\* have no effect: there is one record per block the markers delimit, and no
\* more records than marker lines.
C26_OneRecordPerMarkedBlock ==
    FailuresReturned =>
      /\ Len(ffailures) = Len(BlocksOf(ftext))
      /\ Len(ffailures) <= Cardinality(MarkerLines(ftext))
      /\ (MarkerLines(ftext) = {} => ffailures = <<>>)

\* two blocks and, between them, a trigger line that emits nothing
C26_Witness ==
    /\ FailuresReturned
    /\ Len(ffailures) = 2
    /\ Cardinality(MarkerLines(ftext)) = 2
    /\ Cardinality(TriggerLines(ftext)) = 3

\* the State lines of block b: those between its marker and its trigger
StateLinesOf(lines, b) ==
    {i \in (b.marker + 1)..(b.trigger - 1) : IsStateLine(lines, i)}

\* the leftmost State token of line i
StateTokenAt(lines, i) == lines[i][FirstOf(StateTokensOf(lines, i))]

\* C27: within a block every matching State line replaces the annotation:
\* the record of a block carries the line number and function name of the
\* last State line between the block's marker and its trigger.
C27_LastStateLineWins ==
    (FailuresReturned /\ Len(ffailures) = Len(BlocksOf(ftext))) =>
      \A k \in 1..Len(ffailures) :
        LET b == BlocksOf(ftext)[k]
            last == LastOf(StateLinesOf(ftext, b))
        IN last # 0 =>
             /\ ffailures[k].functionName = StateFnName(StateTokenAt(ftext, last))
             /\ ffailures[k].lineNumber = StateLineNumber(StateTokenAt(ftext, last))

C27_Witness ==
    /\ FailuresReturned
    /\ Len(ffailures) = 1
    /\ Cardinality(StateLinesOf(ftext, BlocksOf(ftext)[1])) = 2
    /\ IsStateLine(ftext, 2) /\ StateTokenAt(ftext, 2) = "State@17:deposit"
    /\ ffailures[1].functionName = "withdraw"
    /\ ffailures[1].lineNumber = 5

\* C28: for every block of the text, the first or a later one, with no State
\* line between its marker and its trigger, the record has functionName
\* 'unknown_function' and lineNumber -1.
C28_NoStateLineGivesUnknown ==
    (FailuresReturned /\ Len(ffailures) = Len(BlocksOf(ftext))) =>
      \A k \in 1..Len(ffailures) :
        StateLinesOf(ftext, BlocksOf(ftext)[k]) = {} =>
          /\ ffailures[k].functionName = "unknown_function"
          /\ ffailures[k].lineNumber = UnknownLineNumber

\* C29: the title is the first non-blank line after the trigger line and the
\* failing code the first non-blank line after the title line, both trimmed,
\* blank and whitespace-only lines being skipped; the two lines are consumed:
\* the next block is looked for after the code line.
C29_TitleAndCodeAfterBlanks ==
    FailuresReturned =>
      /\ Len(ffailures) = Len(BlocksOf(ftext))
      /\ \A k \in 1..Len(ffailures) :
           LET b == BlocksOf(ftext)[k]
           IN /\ b.title # 0 => ffailures[k].title = Trim(ftext[b.title])
              /\ b.code # 0 => ffailures[k].failingCode = Trim(ftext[b.code])

\* the sample block, whose title and code follow blank lines, then a second
\* block found after the code line of the first
C29_Witness ==
    /\ FailuresReturned
    /\ ftext = SampleBlock \o BareBlock
    /\ Len(ffailures) = 2
    /\ ffailures[1].title = <<"assertion">>
    /\ ffailures[1].failingCode = Tail(SampleCodeLine)
    /\ ffailures[2].title = <<"arithmetic overflow">>

\* no block up to block k of the text holds a State line
NoStateLineUpTo(lines, k) ==
    \A n \in 1..k : StateLinesOf(lines, BlocksOf(lines)[n]) = {}

\* C33: outside a block (before the first '[Counterexample]' line or after a
\* record) a 'Violated property:' line emits no record and a State line
\* leaves the annotation alone; a text without a '[Counterexample]' line
\* yields no record.
C33_NothingHappensWhileScanning ==
    FailuresReturned =>
      /\ MarkerLines(ftext) = {} => ffailures = <<>>
      /\ (\A j \in TriggerLines(ftext) : j < FirstOf(MarkerLines(ftext)))
           => ffailures = <<>>
      /\ Len(ffailures) = Len(BlocksOf(ftext))
      /\ \A k \in 1..Len(ffailures) :
           NoStateLineUpTo(ftext, k) =>
             /\ ffailures[k].functionName = "unknown_function"
             /\ ffailures[k].lineNumber = UnknownLineNumber

\* a State line and a trigger before the marker, then a block without a
\* State line
C33_Witness ==
    /\ FailuresReturned
    /\ Len(ftext) >= 4
    /\ IsStateLine(ftext, 1) /\ IsTriggerLine(ftext, 2)
    /\ IsMarkerLine(ftext, 3) /\ IsTriggerLine(ftext, 4)
    /\ Len(ffailures) = 1
    /\ ffailures[1].functionName = "unknown_function"
    /\ ffailures[1].lineNumber = UnknownLineNumber

\* C34: the line cursor only moves forward and stays within one line past
\* the end, so the scan ends on every text; when the text ends inside a
\* trigger the record is still emitted, with title 'unknown-property' if no
\* non-blank line follows the trigger and failingCode 'unknown-failing-code'
\* if none follows the title.
C34_EndsInsideTrigger ==
    FailuresReturned =>
      /\ \A i \in 1..(Len(ftext) + 1) :
           i <= SkipFiller(ftext, i) /\ SkipFiller(ftext, i) <= Len(ftext) + 1
      /\ Len(ffailures) = Len(BlocksOf(ftext))
      /\ \A k \in 1..Len(ffailures) :
           LET b == BlocksOf(ftext)[k]
           IN /\ b.title = 0 => ffailures[k].title = <<"unknown-property">>
              /\ b.code = 0 =>
                   ffailures[k].failingCode = <<"unknown-failing-code">>

\* the text ends with the trigger line and blank lines
C34_Witness ==
    /\ FailuresReturned
    /\ Len(ftext) = 4
    /\ IsMarkerLine(ftext, 1) /\ IsStateLine(ftext, 2)
    /\ IsTriggerLine(ftext, 3) /\ IsBlankLine(ftext, 4)
    /\ Len(ffailures) = 1
    /\ ffailures[1].title = <<"unknown-property">>
    /\ ffailures[1].failingCode = <<"unknown-failing-code">>


(***************************************************************************)
(* SpecList: getModifiedFiles, the rest of detectChangedFunctions and      *)
(* run() from its first step.                                              *)
(*                                                                         *)
(* The output of `git diff --name-only` is a sequence of lines, each       *)
(* ended by a line break, so that the empty output is <<>>; a line is a    *)
(* token sequence, the file name being one token.                          *)
(***************************************************************************)
\* the three `git diff --name-only` commands, in the order they are tried
DiffArgs == <<"baseRef headRef", "origin/baseRef origin/headRef",
              "baseRef headRef --">>

\* output.split("\n"): the piece after the last line break is the empty string
SplitLines(output) == output \o << <<>> >>

\* the string of a trimmed line
FileOf(line) == IF line = <<>> THEN "" ELSE line[1]

\* file.endsWith(".clar")
EndsWithClar(file) ==
    file \in {"contracts/a.clar", "contracts/b.clar", "lib/c.clar"}

\* path.relative(dir, file) for the relative paths of the model
PathRelative(dir, file) ==
    CASE dir = "./" -> file
      [] dir = "contracts" /\ file = "contracts/a.clar" -> "a.clar"
      [] dir = "contracts" /\ file = "contracts/b.clar" -> "b.clar"
      [] dir = "contracts" /\ file = "contracts" -> ""
      [] dir = "contracts" /\ file = "" -> ".."
      [] OTHER -> "../" \o file

\* !relativePath.startsWith("..") && !path.isAbsolute(relativePath)
InsideDir(dir, file) ==
    PathRelative(dir, file) \in
        {"", "a.clar", "b.clar", "contracts/a.clar", "contracts/b.clar",
         "lib/c.clar", "README.md"}

\* the filter chain of getModifiedFiles on the collected output
FilterModifiedFiles(output, contractsDir) ==
    LET pieces == SplitLines(output)
        files == [k \in 1..Len(pieces) |-> FileOf(Trim(pieces[k]))]
    IN SelectSeq(files,
                 LAMBDA file :
                    /\ EndsWithClar(file)
                    /\ \E d \in 1..Len(contractsDir) :
                          InsideDir(contractsDir[d], file))

\* new RegExp(pattern.replace(/\./g, "\\.").replace(/\*/g, ".*")).test(file)
PatternTest(pattern, file) ==
    \/ pattern = "b.clar" /\ file = "contracts/b.clar"
    \/ pattern = "lib/*" /\ file = "lib/c.clar"

\* detectChangedFunctions: the files that no excluded pattern matches
FilteredFiles(modifiedFiles, excludedContracts) ==
    SelectSeq(modifiedFiles,
              LAMBDA file :
                 ~\E p \in 1..Len(excludedContracts) :
                     PatternTest(excludedContracts[p], file))

\* what the file loop of detectChangedFunctions can push for the files: the
\* records of a file are pushed together, and a file may give none; here a
\* file gives at most one record
RECURSIVE ChangesOfFiles(_)
ChangesOfFiles(files) ==
    IF files = <<>> THEN { <<>> }
    ELSE { h \o t :
             h \in { <<>> } \cup { <<[file |-> Head(files), name |-> n]>> :
                                   n \in RunNames },
             t \in ChangesOfFiles(Tail(files)) }

\* inputs
ListConfigs ==
    [contractsDir : { <<"./">>, <<"contracts">> },
     excludedContracts : { <<>>, <<"b.clar">> }]
ExitCodes == {0, 128}
DiffOutputs ==
    { <<>>,
      << <<"contracts/a.clar">> >>,
      << <<"README.md">>, <<"contracts/b.clar">> >>,
      << <<"lib/c.clar">>, <<"contracts/a.clar", "SP">> >> }

InitList ==
    /\ lpc = "refs"
    /\ lconfig \in ListConfigs
    /\ lwarned = FALSE
    /\ loutput = <<>> /\ lexitCode = 0 /\ lattempts = <<>> /\ lfiles = <<>>
    /\ rpc = "detect"
    /\ rchanged = <<>> /\ rgroups = <<>> /\ rast = {}
    /\ rfi = 0 /\ rfj = 0 /\ rinflight = {} /\ rresults = <<>>
    /\ rconfig \in [failOnIssue : BOOLEAN, inPR : BOOLEAN]
    /\ routputs = NoOutputs /\ rfailed = FALSE
    /\ rlog = <<>>
    /\ SarifIdle /\ PlanIdle /\ ParseIdle /\ ContractIdle /\ FailIdle
    /\ PublishIdle
    /\ OutIdle /\ DetIdle

\* fetchGitRefIfNeeded(baseRef), fetchGitRefIfNeeded(headRef): neither call
\* can throw; a missing reference is warned about and the function goes on
FetchRefs ==
    /\ lpc = "refs"
    /\ \E baseExists \in BOOLEAN, headExists \in BOOLEAN :
         lwarned' = (~baseExists \/ ~headExists)
    /\ lpc' = "diff"
    /\ UNCHANGED <<lconfig, loutput, lexitCode, lattempts, lfiles,
                   sarifVars, planVars, parseVars, contractVars, failVars,
                   publishVars, outVars, detVars, runVars>>

\* the first attempt is always made; the next ones only after
\* `exitCode !== 0 && output === ""`
AttemptIsDue ==
    /\ Len(lattempts) < Len(DiffArgs)
    /\ lattempts = <<>> \/ (lexitCode # 0 /\ loutput = <<>>)

\* the catch block returns what the output holds so far
DiffThrowsMutKeepsOutput ==
    /\ lpc = "diff" /\ AttemptIsDue
    /\ \E out \in DiffOutputs :
         /\ lattempts' = Append(lattempts,
                                [args |-> DiffArgs[Len(lattempts) + 1],
                                 exitCode |-> lexitCode, output |-> out,
                                 threw |-> TRUE])
         /\ lfiles' = FilterModifiedFiles(loutput \o out, lconfig.contractsDir)
    /\ loutput' = <<>> /\ lexitCode' = 0
    /\ lpc' = "returned"
    /\ UNCHANGED <<lconfig, lwarned,
                   sarifVars, planVars, parseVars, contractVars, failVars,
                   publishVars, outVars, detVars, runVars>>

\* `await exec("git", ["diff", "--name-only", ...], options)` resolved: the
\* listener has appended the output, exitCode is the exit code
DiffReturns ==
    /\ lpc = "diff" /\ AttemptIsDue
    /\ \E code \in ExitCodes, out \in DiffOutputs :
         /\ loutput' = loutput \o out
         /\ lexitCode' = code
         /\ lattempts' = Append(lattempts,
                                [args |-> DiffArgs[Len(lattempts) + 1],
                                 exitCode |-> code, output |-> out,
                                 threw |-> FALSE])
    /\ UNCHANGED <<lpc, lconfig, lwarned, lfiles,
                   sarifVars, planVars, parseVars, contractVars, failVars,
                   publishVars, outVars, detVars, runVars>>

\* exec rejected, after the listener may have appended some output: the
\* catch block logs the error and returns []
DiffThrows ==
    /\ lpc = "diff" /\ AttemptIsDue
    /\ \E out \in DiffOutputs :
         lattempts' = Append(lattempts,
                             [args |-> DiffArgs[Len(lattempts) + 1],
                              exitCode |-> lexitCode, output |-> out,
                              threw |-> TRUE])
    /\ lfiles' = <<>>
    /\ loutput' = <<>> /\ lexitCode' = 0
    /\ lpc' = "returned"
    /\ UNCHANGED <<lconfig, lwarned,
                   sarifVars, planVars, parseVars, contractVars, failVars,
                   publishVars, outVars, detVars, runVars>>

\* no attempt is left or due: [] when the last one failed without output,
\* and the filtered lines of the output otherwise
ListReturns ==
    /\ lpc = "diff" /\ ~AttemptIsDue
    /\ lfiles' = IF lexitCode # 0 /\ loutput = <<>> THEN <<>>
                 ELSE FilterModifiedFiles(loutput, lconfig.contractsDir)
    /\ loutput' = <<>> /\ lexitCode' = 0
    /\ lpc' = "returned"
    /\ UNCHANGED <<lconfig, lwarned, lattempts,
                   sarifVars, planVars, parseVars, contractVars, failVars,
                   publishVars, outVars, detVars, runVars>>

\* detectChangedFunctions returned no record: run() sets 'no_changes' and
\* returns
ListDetectNoChanges ==
    /\ lpc = "returned" /\ rpc = "detect"
    /\ rchanged' = <<>>
    /\ rchanged' \in
         ChangesOfFiles(FilteredFiles(lfiles, lconfig.excludedContracts))
    /\ routputs' = [routputs EXCEPT !.verification_status = "no_changes"]
    /\ rpc' = "done"
    /\ lpc' = "detected"
    /\ UNCHANGED <<lconfig, lwarned, loutput, lexitCode, lattempts, lfiles,
                   rgroups, rast, rfi, rfj, rinflight, rresults, rconfig,
                   rfailed, rlog,
                   sarifVars, planVars, parseVars, contractVars, failVars,
                   publishVars, outVars, detVars>>

\* detectChangedFunctions returned records of the filtered files; run()
\* groups them by file and goes on
ListDetectChanges ==
    /\ lpc = "returned" /\ rpc = "detect"
    /\ rchanged' \in
         ChangesOfFiles(FilteredFiles(lfiles, lconfig.excludedContracts))
           \ { <<>> }
    /\ rgroups' = groupFunctionsByFile(rchanged')
    /\ rfi' = 1
    /\ rpc' = "ast"
    /\ lpc' = "detected"
    /\ UNCHANGED <<lconfig, lwarned, loutput, lexitCode, lattempts, lfiles,
                   rast, rfj, rinflight, rresults, rconfig, routputs, rfailed,
                   rlog,
                   sarifVars, planVars, parseVars, contractVars, failVars,
                   publishVars, outVars, detVars>>

NextList ==
    \/ FetchRefs \/ DiffReturns \/ DiffThrows \/ ListReturns
    \/ ListDetectNoChanges \/ ListDetectChanges
    \/ AstStart \/ AstReturns \/ AstThrows \/ AstDone
    \/ SkipFile \/ NextFile \/ EsbmcStart \/ EsbmcCompletes \/ JobsDone
    \/ WriteReport \/ WriteReportThrows
    \/ UploadStart \/ UploadCompletes \/ CommentStart \/ CommentCompletes
    \/ SetStatus

SpecList == InitList /\ [][NextList]_vars

(***************************************************************************)
(* Claims on the listing of the modified files (SpecList).                 *)
(***************************************************************************)
ListingReturned == lpc \in {"returned", "detected"}
\* every attempt was made and each one ended with a non-zero exit code and no
\* output
EveryAttemptFailed ==
    /\ Len(lattempts) = Len(DiffArgs)
    /\ \A k \in 1..Len(lattempts) :
         /\ ~lattempts[k].threw
         /\ lattempts[k].exitCode # 0
         /\ lattempts[k].output = <<>>
\* an exception was raised while listing
ListingThrew == \E k \in 1..Len(lattempts) : lattempts[k].threw

\* C38: when every attempt to list the modified files failed with no output,
\* or an exception was raised while listing, getModifiedFiles returns the
\* empty list and no error reaches run(); the run then ends with the status
\* output 'no_changes', and the checker is never invoked.
C38_FailedListingIsNoChanges ==
    (ListingReturned /\ (EveryAttemptFailed \/ ListingThrew)) =>
        /\ lfiles = <<>>
        /\ ~rfailed
        /\ rpc \in {"detect", "done"}
        /\ rlog = <<>> /\ rresults = <<>> /\ rinflight = {}
        /\ routputs.sarif_report = ""
        /\ lpc = "detected" =>
             /\ rpc = "done"
             /\ rchanged = <<>>
             /\ routputs.verification_status = "no_changes"

\* a finished run whose three attempts all failed without output
C38_Witness ==
    /\ lpc = "detected" /\ rpc = "done"
    /\ EveryAttemptFailed
    /\ lattempts[3].args = "baseRef headRef --"
    /\ lfiles = <<>>
    /\ routputs.verification_status = "no_changes"

\* a finished run whose second attempt threw after the listener had received
\* the name of a contract
C38_WitnessThrew ==
    /\ lpc = "detected" /\ rpc = "done"
    /\ Len(lattempts) = 2
    /\ lattempts[2].threw /\ lattempts[2].output = << <<"contracts/a.clar">> >>
    /\ lfiles = <<>>
    /\ routputs.verification_status = "no_changes"


(***************************************************************************)
(* SpecPublish: run() from step 4 on, with uploadSARIF and postPRComment   *)
(* of github/comment: the report, the upload, the comment, the status.     *)
(***************************************************************************)
MaxPublished == 2       \* results in esbmcResults when the job loop is over

\* the results runESBMC gives for the outcomes of the checker container
PublishResults ==
    { runESBMC("contracts/a.clar", "deposit", runInContainer(o)).value :
        o \in CheckerOutcomes }
PublishResultLists ==
    UNION { [1..n -> PublishResults] : n \in 0..MaxPublished }

Step(name, value) == [step |-> name, value |-> value]

InitPublish ==
    /\ upc = "report"
    /\ uresults \in PublishResultLists
    /\ uconfig \in [failOnIssue : BOOLEAN, inPR : BOOLEAN,
                    hasWorkspace : BOOLEAN, hasToken : BOOLEAN]
    /\ uoutputs = NoOutputs /\ ufailed = FALSE /\ ulog = <<>>
    /\ SarifIdle /\ PlanIdle /\ ParseIdle /\ ContractIdle /\ FailIdle
    /\ ListIdle
    /\ OutIdle /\ DetIdle /\ RunIdle

\* generateSARIF, writeSARIFReport, setOutput("sarif_report", sarifPath)
PublishReport ==
    /\ upc = "report"
    /\ uoutputs' = [uoutputs EXCEPT !.sarif_report = "results.sarif"]
    /\ upc' = "upload"
    /\ UNCHANGED <<uresults, uconfig, ufailed, ulog,
                   sarifVars, planVars, parseVars, contractVars, failVars,
                   listVars, outVars, detVars, runVars>>

\* writeSARIFReport threw: the catch of run() calls setFailed
PublishReportThrows ==
    /\ upc = "report"
    /\ ufailed' = TRUE
    /\ upc' = "done"
    /\ UNCHANGED <<uresults, uconfig, uoutputs, ulog,
                   sarifVars, planVars, parseVars, contractVars, failVars,
                   listVars, outVars, detVars, runVars>>

\* a failed upload reaches the catch block of run(): setFailed
PublishUploadMutPropagates ==
    /\ upc = "upload"
    /\ \E api \in ApiOutcomes :
         LET ok == uploadSARIF(uconfig.hasWorkspace, uconfig.hasToken, api)
         IN /\ ulog' = Append(ulog, Step("uploadSARIF", ok))
            /\ ufailed' = ~ok
            /\ upc' = IF ~ok THEN "done"
                      ELSE IF uconfig.inPR THEN "comment" ELSE "status"
    /\ UNCHANGED <<uresults, uconfig, uoutputs,
                   sarifVars, planVars, parseVars, contractVars, failVars,
                   listVars, outVars, detVars, runVars>>

\* `await uploadSARIF(sarifPath)`: the value is dropped
PublishUpload ==
    /\ upc = "upload"
    /\ \E api \in ApiOutcomes :
         ulog' = Append(ulog,
                        Step("uploadSARIF",
                             uploadSARIF(uconfig.hasWorkspace,
                                         uconfig.hasToken, api)))
    /\ upc' = IF uconfig.inPR THEN "comment" ELSE "status"
    /\ UNCHANGED <<uresults, uconfig, uoutputs, ufailed,
                   sarifVars, planVars, parseVars, contractVars, failVars,
                   listVars, outVars, detVars, runVars>>

\* `await postPRComment(...)`, in a pull request only: the value is dropped
PublishComment ==
    /\ upc = "comment"
    /\ \E api \in ApiOutcomes :
         ulog' = Append(ulog,
                        Step("postPRComment",
                             postPRComment(uconfig.inPR, uconfig.hasToken,
                                           api)))
    /\ upc' = "status"
    /\ UNCHANGED <<uresults, uconfig, uoutputs, ufailed,
                   sarifVars, planVars, parseVars, contractVars, failVars,
                   listVars, outVars, detVars, runVars>>

\* setOutput("verification_status", ...) and setWorkflowStatus(...)
PublishStatus ==
    /\ upc = "status"
    /\ uoutputs' = [uoutputs EXCEPT !.verification_status =
                      IF HasFailures(uresults) THEN "failure" ELSE "success"]
    /\ ufailed' = (setWorkflowStatus(uresults, uconfig.failOnIssue) = "setFailed")
    /\ upc' = "done"
    /\ UNCHANGED <<uresults, uconfig, ulog,
                   sarifVars, planVars, parseVars, contractVars, failVars,
                   listVars, outVars, detVars, runVars>>

NextPublish ==
    \/ PublishReport \/ PublishReportThrows
    \/ PublishUpload \/ PublishComment \/ PublishStatus

SpecPublish == InitPublish /\ [][NextPublish]_vars

(***************************************************************************)
(* Claims on the end of run() (SpecPublish).                               *)
(***************************************************************************)
StepEnded(name) == \E p \in 1..Len(ulog) : ulog[p].step = name
StepFailed(name) ==
    \E p \in 1..Len(ulog) : ulog[p].step = name /\ ~ulog[p].value
PublishDone == upc = "done" /\ uoutputs.sarif_report # ""
SomePublishedFailed == \E k \in 1..Len(uresults) : uresults[k].verified = FALSE

\* C39: a failed upload of the findings and a failed pull-request comment
\* are absorbed: the step resolves with false and the run goes on. The
\* report path output is set before the upload is attempted; the status
\* output and the pass/fail decision are not set before both steps are over,
\* and they are then what the results alone give, whether or not a step
\* failed.
C39_PublishFailuresAbsorbed ==
    /\ \A w \in BOOLEAN, t \in BOOLEAN :
         /\ uploadSARIF(w, t, Threw(<<"HttpError">>)) = FALSE
         /\ postPRComment(w, t, Threw(<<"HttpError">>)) = FALSE
    /\ (upc = "upload" \/ StepEnded("uploadSARIF")) =>
         uoutputs.sarif_report = "results.sarif"
    /\ upc \in {"upload", "comment", "status"} =>
         /\ uoutputs.verification_status = ""
         /\ ~ufailed
    /\ (StepFailed("uploadSARIF") \/ StepFailed("postPRComment")) =>
         /\ upc \in {"comment", "status", "done"}
         /\ upc = "done" => uoutputs.verification_status # ""
    /\ PublishDone =>
         /\ StepEnded("uploadSARIF")
         /\ StepEnded("postPRComment") <=> uconfig.inPR
         /\ uoutputs.verification_status =
              IF SomePublishedFailed THEN "failure" ELSE "success"
         /\ ufailed <=> (SomePublishedFailed /\ uconfig.failOnIssue)

\* a completed run whose upload was rejected by the API and whose comment
\* was rejected too: the results are all verified, the status is 'success'
\* and the workflow is not marked failed
C39_Witness ==
    /\ PublishDone
    /\ uconfig.hasWorkspace /\ uconfig.hasToken /\ uconfig.failOnIssue
    /\ StepFailed("uploadSARIF") /\ StepFailed("postPRComment")
    /\ Len(uresults) = 2 /\ ~SomePublishedFailed
    /\ uoutputs.verification_status = "success" /\ ~ufailed

=============================================================================
